---------------------------- MODULE Spec2Model ----------------------------
(***************************************************************************)
(* A model of the client-code generator of third-party-api-clients:        *)
(* generator/src/functions.rs (generate_files and its helpers              *)
(* get_response_type, get_fn_params, get_fn_inner, get_fn_docs).           *)
(*                                                                         *)
(* Rust values are modelled as follows.                                    *)
(*   Option<T>          None is <<>>, Some(x) is <<x>>                     *)
(*   Result<T>          a record [tag, v]: tag "Ok" with the value, tag    *)
(*                      "Err" with the bail! message and its arguments,    *)
(*                      tag "Panic" for a failed unwrap()                  *)
(*   String             a TLA+ string; format! is \o.  A backquote of the  *)
(*                      generated text is written as a single quote.       *)
(*   Vec<T>, IndexMap   a sequence (an IndexMap is a sequence of           *)
(*                      <<key, value>> pairs in insertion order)           *)
(*   BTreeMap<K, V>     a sequence of <<key, value>> pairs kept sorted by  *)
(*                      key in byte order, the order its iterator yields   *)
(*   &mut TypeSpace     the registry is passed in and returned in the      *)
(*                      field ts of the result                             *)
(***************************************************************************)
EXTENDS Integers, Sequences, FiniteSets, TLC

VARIABLES
    args,       \* the arguments of the function under check
    ret,        \* what it returned (<<>> before it returns)
    paths,      \* generate_files: the names of the paths iterated so far
    verb,       \* generate_files: the next gen call of the current path
    tag_files,  \* generate_files: the Tag Groups
    type_space, \* generate_files: the caller's TypeSpace (ts)
    visited,    \* the operations handed to gen so far, in call order
    earlier     \* the outcomes of the earlier runs on the same document

driver == <<paths, verb, tag_files, type_space, visited, earlier>>
vars == <<args, ret, driver>>

(* generate_files before its loop (line 19) *)
InitDriver ==
    /\ paths = <<>>
    /\ verb = 9
    /\ tag_files = <<>>
    /\ type_space = <<>>
    /\ visited = <<>>
    /\ earlier = <<>>

----------------------------------------------------------------------------
(* Option and Result *)

None == <<>>
Some(x) == <<x>>
IsSome(o) == Len(o) = 1
Unwrap(o) == o[1]

Ok(x) == [tag |-> "Ok", v |-> x]
Err(m) == [tag |-> "Err", v |-> m]
Panic(m) == [tag |-> "Panic", v |-> m]
IsOk(r) == r.tag = "Ok"
IsErr(r) == r.tag = "Err"
IsPanic(r) == r.tag = "Panic"

----------------------------------------------------------------------------
(* Strings: byte-order comparison, as String's Ord (the BTreeMap key order) *)

Alphabet == "*+/0123456789ABCDEFGHIJKLMNOPQRSTUVWXYZ_abcdefghijklmnopqrstuvwxyz{}"

CharAt(s, i) == SubSeq(s, i, i)

RankOf ==
    [c \in {CharAt(Alphabet, i) : i \in 1..Len(Alphabet)} |->
        CHOOSE i \in 1..Len(Alphabet) : CharAt(Alphabet, i) = c]
CharRank(c) == RankOf[c]

RECURSIVE StrLessFrom(_, _, _)
StrLessFrom(a, b, i) ==
    IF i > Len(b) THEN FALSE
    ELSE IF i > Len(a) THEN TRUE
    ELSE IF CharAt(a, i) = CharAt(b, i) THEN StrLessFrom(a, b, i + 1)
    ELSE CharRank(CharAt(a, i)) < CharRank(CharAt(b, i))

StrLess(a, b) == StrLessFrom(a, b, 1)

StartsWith(s, p) == Len(p) <= Len(s) /\ SubSeq(s, 1, Len(p)) = p

Lowers == "abcdefghijklmnopqrstuvwxyz"
Uppers == "ABCDEFGHIJKLMNOPQRSTUVWXYZ"

Chars(s) == {CharAt(s, i) : i \in 1..Len(s)}
UpperChars == Chars(Uppers)
LowerChars == Chars(Lowers)
IndexIn(c, s) == CHOOSE i \in 1..Len(s) : CharAt(s, i) = c
IsUpper(c) == c \in UpperChars
IsLower(c) == c \in LowerChars
LowerOf == [c \in UpperChars |-> CharAt(Lowers, IndexIn(c, Uppers))]
UpperOf == [c \in LowerChars |-> CharAt(Uppers, IndexIn(c, Lowers))]
ToLowerChar(c) == IF IsUpper(c) THEN LowerOf[c] ELSE c
ToUpperChar(c) == IF IsLower(c) THEN UpperOf[c] ELSE c
IsSeparator(c) == c \in {" ", "_", "-"}

(* inflector's to_snake_case: words are split at separators and before an  *)
(* upper-case letter that follows a lower-case one; all letters lowered.   *)
RECURSIVE SnakeFrom(_, _)
SnakeFrom(s, i) ==
    IF i > Len(s) THEN ""
    ELSE LET c == CharAt(s, i)
             rest == SnakeFrom(s, i + 1)
         IN  IF IsSeparator(c)
             THEN (IF i = 1 \/ i = Len(s) \/ IsSeparator(CharAt(s, i + 1))
                   THEN rest ELSE "_" \o rest)
             ELSE IF IsUpper(c) /\ i > 1 /\ IsLower(CharAt(s, i - 1))
             THEN "_" \o ToLowerChar(c) \o rest
             ELSE ToLowerChar(c) \o rest

to_snake_case(s) == SnakeFrom(s, 1)

(* inflector's to_pascal_case, on snake-cased or space-separated words.    *)
RECURSIVE PascalFrom(_, _)
PascalFrom(s, i) ==
    IF i > Len(s) THEN ""
    ELSE LET c == CharAt(s, i)
         IN  IF IsSeparator(c) THEN PascalFrom(s, i + 1)
             ELSE IF i = 1 \/ IsSeparator(CharAt(s, i - 1))
             THEN ToUpperChar(c) \o PascalFrom(s, i + 1)
             ELSE c \o PascalFrom(s, i + 1)

to_pascal_case(s) == PascalFrom(s, 1)

RECURSIVE ReplaceFrom(_, _, _, _)
ReplaceFrom(s, from, to, i) ==
    IF i > Len(s) THEN ""
    ELSE (IF CharAt(s, i) = from THEN to ELSE CharAt(s, i))
         \o ReplaceFrom(s, from, to, i + 1)

(* str::replace(from, "") *)
RECURSIVE RemoveAll(_, _)
RemoveAll(s, sub) ==
    IF Len(s) = 0 \/ Len(sub) = 0 THEN s
    ELSE IF StartsWith(s, sub)
    THEN RemoveAll(SubSeq(s, Len(sub) + 1, Len(s)), sub)
    ELSE CharAt(s, 1) \o RemoveAll(SubSeq(s, 2, Len(s)), sub)

(* str::trim_start_matches, str::trim_end_matches, str::trim *)
RECURSIVE trim_start_matches(_, _)
trim_start_matches(s, pat) ==
    IF Len(pat) > 0 /\ StartsWith(s, pat)
    THEN trim_start_matches(SubSeq(s, Len(pat) + 1, Len(s)), pat)
    ELSE s

RECURSIVE trim_end_matches(_, _)
trim_end_matches(s, pat) ==
    IF Len(pat) > 0 /\ Len(pat) <= Len(s)
        /\ SubSeq(s, Len(s) - Len(pat) + 1, Len(s)) = pat
    THEN trim_end_matches(SubSeq(s, 1, Len(s) - Len(pat)), pat)
    ELSE s

trim(s) == trim_end_matches(trim_start_matches(s, " "), " ")

(* crate::clean_name, crate::oid_to_object_name, crate::struct_name: the   *)
(* name helpers of the generator crate.  The names of this model are made  *)
(* of letters, digits, `_` and spaces, which clean_name leaves as they are *)
(* (the generated bullets of zoom/src/phone.rs show the names unchanged).  *)
clean_name(t) == t
oid_to_object_name(s) == ReplaceFrom(s, "_", " ", 1)
struct_name(s) == to_pascal_case(clean_name(s))

----------------------------------------------------------------------------
(* ReferenceOr<T> and ReferenceOrExt::item *)

Item(x) == [kind |-> "Item", item |-> x]
Reference(r) == [kind |-> "Reference", reference |-> r]

item(r) ==
    IF r.kind = "Item" THEN Ok(r.item)
    ELSE Err(<<"reference not supported here", r.reference>>)

----------------------------------------------------------------------------
(* The Schema Registry (TypeSpace).  A registry is the sequence of the     *)
(* types it has allocated; a Type Identifier is an index into it.          *)

Schema(kind, shape, description) ==
    [kind |-> kind, shape |-> shape, description |-> description]

ObjectSchema == Schema("object", "{id: string}", "")
StringSchema == Schema("string", "string", "")
DanglingSchema == Schema("ref", "#/components/schemas/Missing", "")

NewTypeSpace == <<>>

CachedId(ts, s) ==
    IF \E i \in 1..Len(ts) : ts[i].name = None /\ ts[i].schema = s
    THEN Some(CHOOSE i \in 1..Len(ts) :
                /\ ts[i].name = None /\ ts[i].schema = s
                /\ \A j \in 1..(i - 1) : ~(ts[j].name = None /\ ts[j].schema = s))
    ELSE None

select(ts, name, s) ==
    IF s.kind = "ref"
    THEN [res |-> Err(<<"dangling schema reference", s.shape>>), ts |-> ts]
    ELSE IF IsSome(name) \/ ~IsSome(CachedId(ts, s))
    THEN [res |-> Ok(Len(ts) + 1),
          ts |-> Append(ts, [name |-> name, schema |-> s])]
    ELSE [res |-> Ok(Unwrap(CachedId(ts, s))), ts |-> ts]

render_type(ts, id) ==
    IF id \notin 1..Len(ts) THEN Err(<<"unknown type id", id>>)
    ELSE IF IsSome(ts[id].name)
    THEN Ok("crate::types::" \o struct_name(Unwrap(ts[id].name)))
    ELSE IF ts[id].schema.kind = "string" THEN Ok("String")
    ELSE Ok("crate::types::Type" \o ToString(id))

(* `let id = ts.select(name, s, false, "")?; let rt = ts.render_type(&id,  *)
(* false)?;`: the pair of calls every resolution in functions.rs makes.    *)
select_render(ts, name, s) ==
    LET sel == select(ts, name, s)
    IN  IF ~IsOk(sel.res) THEN sel
        ELSE [res |-> render_type(sel.ts, sel.res.v), ts |-> sel.ts]

----------------------------------------------------------------------------
(* IndexMap<K, V>: a sequence of <<key, value>> pairs with distinct keys   *)

Keys(m) == {m[i][1] : i \in 1..Len(m)}
MapGet(m, k) ==
    IF k \in Keys(m)
    THEN Some((CHOOSE i \in 1..Len(m) : m[i][1] = k))
    ELSE None
IsMap(m) == \A i, j \in 1..Len(m) : m[i][1] = m[j][1] => i = j

----------------------------------------------------------------------------
(* get_response_type: the response type of an operation, by content-type   *)
(* precedence over the content of its first declared response.             *)

ResponseObjectName(oid) == clean_name(oid_to_object_name(oid) \o " response")

(* a precedence list that forgot the wildcard *)
AnonymousContentTypes_NoWildcard ==
    {"text/plain", "text/html", "application/octocat-stream"}

AnonymousContentTypes ==
    {"text/plain", "text/html", "application/octocat-stream", "*/*"}

EncodingNotEmpty(mt) == Err(<<"media type encoding not empty", mt>>)
NoResponseType == Err(<<"parsing response got to end with no type">>)

(* the fallback reading the last content entry instead of the first *)
FirstContentEntry_Last(oid, ts, content) ==
    LET ct == content[Len(content)][1]
        mt == content[Len(content)][2]
    IN  IF ct \in AnonymousContentTypes
        THEN IF IsSome(mt.schema)
             THEN select_render(ts, None, Unwrap(mt.schema))
             ELSE [res |-> NoResponseType, ts |-> ts]
        ELSE IF ct = "application/scim+json"
        THEN IF mt.encoding # <<>>
             THEN [res |-> EncodingNotEmpty(mt), ts |-> ts]
             ELSE IF IsSome(mt.schema)
             THEN select_render(ts, Some(ResponseObjectName(oid)),
                                Unwrap(mt.schema))
             ELSE [res |-> NoResponseType, ts |-> ts]
        ELSE [res |-> NoResponseType, ts |-> ts]

(* a fallback that gives the anonymous types the name of the operation *)
FirstContentEntry_Named(oid, ts, content) ==
    LET ct == content[1][1]
        mt == content[1][2]
    IN  IF ct \in AnonymousContentTypes \/ ct = "application/scim+json"
        THEN IF ct = "application/scim+json" /\ mt.encoding # <<>>
             THEN [res |-> EncodingNotEmpty(mt), ts |-> ts]
             ELSE IF IsSome(mt.schema)
             THEN select_render(ts, Some(ResponseObjectName(oid)),
                                Unwrap(mt.schema))
             ELSE [res |-> NoResponseType, ts |-> ts]
        ELSE [res |-> NoResponseType, ts |-> ts]

(* lines 210-232: the first content entry decides *)
FirstContentEntry(oid, ts, content) ==
    LET ct == content[1][1]
        mt == content[1][2]
    IN  IF ct \in AnonymousContentTypes
        THEN IF IsSome(mt.schema)
             THEN select_render(ts, None, Unwrap(mt.schema))
             ELSE [res |-> NoResponseType, ts |-> ts]
        ELSE IF ct = "application/scim+json"
        THEN IF mt.encoding # <<>>
             THEN [res |-> EncodingNotEmpty(mt), ts |-> ts]
             ELSE IF IsSome(mt.schema)
             THEN select_render(ts, Some(ResponseObjectName(oid)),
                                Unwrap(mt.schema))
             ELSE [res |-> NoResponseType, ts |-> ts]
        ELSE [res |-> NoResponseType, ts |-> ts]

(* application/json honoured only when it is the first content entry *)
JsonContentEntry_FirstOnly(oid, ts, content) ==
    LET mt == content[1][2]
    IN  IF content[1][1] # "application/json"
        THEN FirstContentEntry(oid, ts, content)
        ELSE IF mt.encoding # <<>>
        THEN [res |-> EncodingNotEmpty(mt), ts |-> ts]
        ELSE IF IsSome(mt.schema)
        THEN select_render(ts, Some(ResponseObjectName(oid)), Unwrap(mt.schema))
        ELSE FirstContentEntry(oid, ts, content)

(* the application/json entry taken without the check of its encoding *)
JsonContentEntry_NoEncodingCheck(oid, ts, content) ==
    LET j == MapGet(content, "application/json")
        mt == content[Unwrap(j)][2]
    IN  IF IsSome(j) /\ IsSome(mt.schema)
        THEN select_render(ts, Some(ResponseObjectName(oid)), Unwrap(mt.schema))
        ELSE FirstContentEntry(oid, ts, content)

(* lines 196-208: the application/json entry, wherever it stands *)
JsonContentEntry(oid, ts, content) ==
    LET j == MapGet(content, "application/json")
        mt == content[Unwrap(j)][2]
    IN  IF ~IsSome(j) THEN FirstContentEntry(oid, ts, content)
        ELSE IF mt.encoding # <<>>
        THEN [res |-> EncodingNotEmpty(mt), ts |-> ts]
        ELSE IF IsSome(mt.schema)
        THEN select_render(ts, Some(ResponseObjectName(oid)), Unwrap(mt.schema))
        ELSE FirstContentEntry(oid, ts, content)

(* the type taken from the last declared response instead of the first *)
get_response_type_Last(oid, ts, o) ==
    IF o.responses = <<>>
    THEN [res |-> Panic("unwrap on None: responses.first()"), ts |-> ts]
    ELSE LET i == item(o.responses[Len(o.responses)][2])
         IN  IF ~IsOk(i) THEN [res |-> i, ts |-> ts]
             ELSE IF i.v.content = <<>> THEN [res |-> Ok("()"), ts |-> ts]
             ELSE JsonContentEntry(oid, ts, i.v.content)

get_response_type(oid, ts, o) ==
    IF o.responses = <<>>
    THEN [res |-> Panic("unwrap on None: responses.first()"), ts |-> ts]
    ELSE LET i == item(o.responses[1][2])
         IN  IF ~IsOk(i) THEN [res |-> i, ts |-> ts]
             ELSE IF i.v.content = <<>> THEN [res |-> Ok("()"), ts |-> ts]
             ELSE JsonContentEntry(oid, ts, i.v.content)

----------------------------------------------------------------------------
(* openapiv3::Operation, with the fields functions.rs reads *)

Operation(operation_id, tags, parameters, request_body, responses) ==
    [operation_id |-> operation_id, tags |-> tags, parameters |-> parameters,
     request_body |-> request_body, responses |-> responses,
     summary |-> Some("List phone numbers."), description |-> None,
     external_docs |-> None]

MediaType(schema, encoding) == [schema |-> schema, encoding |-> encoding]
Response(content) == [content |-> content]

----------------------------------------------------------------------------
(* Bounded inputs of get_response_type *)

MaxContent == 2     \* content entries of one response

ContentTypes ==
    {"application/json", "text/plain", "text/html", "application/octocat-stream",
     "*/*", "application/scim+json", "application/xml"}

MediaTypes ==
    {MediaType(s, e) : s \in {None, Some(ObjectSchema), Some(DanglingSchema)},
                       e \in {<<>>, <<"profileImage">>}}

ContentEntries == {<<ct, mt>> : ct \in ContentTypes, mt \in MediaTypes}

(* the contents of at most n entries, with distinct content types *)
IsContent(c, n) == DOMAIN c = 1..n /\ IsMap(c)

LaterResponses ==
    {<<>>,
     << <<"404", Item(Response(
            << <<"application/json", MediaType(Some(ObjectSchema), <<>>)>> >>))>> >>}

(* a fresh registry, and one that already holds an anonymous type *)
TypeSpaces == {NewTypeSpace, <<[name |-> None, schema |-> ObjectSchema]>>}

ResponseArgs(t, r) ==
    [fn |-> "get_response_type", oid |-> "phone_list", ts |-> t,
     o |-> Operation(Some("phoneList"), <<"phone">>, <<>>, None, r)]

InitResponse ==
    /\ ret = None
    /\ InitDriver
    /\ \E t \in TypeSpaces :
        \/ args = ResponseArgs(t, <<>>)
        \/ \E l \in LaterResponses :
            \/ args = ResponseArgs(t,
                  << <<"200", Reference("#/components/responses/NotFound")>> >> \o l)
            \/ \E n \in 0..MaxContent : \E c \in [1..n -> ContentEntries] :
                /\ IsContent(c, n)
                /\ args = ResponseArgs(t,
                      << <<"200", Item(Response([i \in 1..n |-> c[i]]))>> >> \o l)

call_get_response_type ==
    /\ args.fn = "get_response_type"
    /\ ret = None
    /\ ret' = Some(get_response_type(args.oid, args.ts, args.o))
    /\ UNCHANGED <<args, driver>>

SpecResponse == InitResponse /\ [][call_get_response_type]_vars

----------------------------------------------------------------------------
(* Claims about get_response_type (checked under SpecResponse) *)

Returned == args.fn = "get_response_type" /\ ret # None
Result == Unwrap(ret)
FirstIsItem == args.o.responses # <<>> /\ args.o.responses[1][2].kind = "Item"
FirstContent == args.o.responses[1][2].item.content
HasContent == FirstIsItem /\ FirstContent # <<>>
HasJson == HasContent /\ "application/json" \in Keys(FirstContent)
JsonEntry == FirstContent[Unwrap(MapGet(FirstContent, "application/json"))][2]
FirstEntry == FirstContent[1][2]
FirstType == FirstContent[1][1]
ResponseName == oid_to_object_name(args.oid) \o " response"
OnlyFirstResponse == [args.o EXCEPT !.responses = <<args.o.responses[1]>>]
OnlyFirstEntry ==
    [args.o EXCEPT !.responses =
        << <<args.o.responses[1][1], Item(Response(<<FirstContent[1]>>))>> >>]
Unchanged(r) == r.ts = args.ts

(* C6: get_response_type reads only the first declared response: the      *)
(* result is the one the first response alone gives, and a first response  *)
(* without content gives `()` (and no registry change) whatever the later  *)
(* responses declare.                                                      *)
C6_FirstResponseOnly ==
    Returned /\ args.o.responses # <<>> =>
        /\ Result = get_response_type(args.oid, args.ts, OnlyFirstResponse)
        /\ (FirstIsItem /\ FirstContent = <<>>) =>
                Result = [res |-> Ok("()"), ts |-> args.ts]

C6_Witness ==
    /\ Returned /\ FirstIsItem /\ FirstContent = <<>>
    /\ Len(args.o.responses) > 1
    /\ args.o.responses[2][2].item.content # <<>>
    /\ Result.res = Ok("()")

(* C7: an application/json entry with a schema and empty encoding, at any  *)
(* position of the first response's content, decides the result: it is the *)
(* resolution of that schema under the preferred name `<operation id>      *)
(* response`, a freshly allocated named type whenever the schema resolves. *)
C7_JsonWins ==
    (Returned /\ HasJson /\ IsSome(JsonEntry.schema) /\ JsonEntry.encoding = <<>>) =>
        /\ Result = select_render(args.ts, Some(ResponseName),
                                  Unwrap(JsonEntry.schema))
        /\ Unwrap(JsonEntry.schema).kind # "ref" =>
            /\ Result.res = Ok("crate::types::PhoneListResponse")
            /\ Result.ts = Append(args.ts, [name |-> Some("phone list response"),
                                            schema |-> Unwrap(JsonEntry.schema)])

C7_Witness ==
    /\ Returned /\ HasJson /\ Len(FirstContent) = 2
    /\ FirstType = "text/plain" /\ IsSome(FirstEntry.schema)
    /\ FirstEntry.schema # Some(DanglingSchema)
    /\ JsonEntry = MediaType(Some(ObjectSchema), <<>>)
    /\ Result.res = Ok("crate::types::PhoneListResponse")

(* an application/json entry that lets the first content entry decide *)
JsonPassesOn ==
    HasContent /\ (HasJson => JsonEntry.encoding = <<>> /\ JsonEntry.schema = None)
JsonUsable ==
    HasJson /\ IsSome(JsonEntry.schema) /\ JsonEntry.encoding = <<>>

FirstEntryRule ==
    /\ Result = get_response_type(args.oid, args.ts, OnlyFirstEntry)
    /\ (FirstType \in {"text/plain", "text/html", "application/octocat-stream", "*/*"}
            /\ IsSome(FirstEntry.schema)) =>
          Result = select_render(args.ts, None, Unwrap(FirstEntry.schema))
    /\ (FirstType = "application/scim+json" /\ IsSome(FirstEntry.schema)
            /\ FirstEntry.encoding = <<>>) =>
          Result = select_render(args.ts, Some(ResponseName),
                                 Unwrap(FirstEntry.schema))

(* C8 as claimed: whenever the first response has content but no usable    *)
(* application/json entry (one with a schema and empty encoding), the      *)
(* first content entry alone decides the result.  (The claim is read with  *)
(* the empty encoding of C10 for the application/scim+json entry.)         *)
C8_Original == (Returned /\ HasContent /\ ~JsonUsable) => FirstEntryRule

(* C8 amended: when the application/json entry is absent, or has empty     *)
(* encoding and no schema, the first content entry alone decides: an       *)
(* anonymous content type with a schema resolves an anonymous type,        *)
(* application/scim+json with a schema (and empty encoding) a named type,  *)
(* and the entries after the first do not change the result.               *)
C8_FirstEntryDecides == (Returned /\ JsonPassesOn) => FirstEntryRule

C8_Witness ==
    /\ Returned /\ JsonPassesOn /\ HasJson /\ Len(FirstContent) = 2
    /\ FirstType = "*/*" /\ FirstEntry.schema = Some(ObjectSchema)
    /\ args.ts # NewTypeSpace
    /\ Result = [res |-> Ok("crate::types::Type1"), ts |-> args.ts]


ListedAnonymous ==
    FirstType \in {"text/plain", "text/html", "application/octocat-stream", "*/*"}
Resolves(schema) == IsSome(schema) /\ Unwrap(schema).kind # "ref"
WellFormed ==
    FirstIsItem /\ \A i \in 1..Len(FirstContent) :
                        FirstContent[i][2].schema # Some(DanglingSchema)

(* the four precedence cases, as the claim counts them *)
Case1 == FirstIsItem /\ FirstContent = <<>>
Case2 == HasJson /\ IsSome(JsonEntry.schema)
Case3 == HasContent /\ ListedAnonymous /\ IsSome(FirstEntry.schema)
Case4 == HasContent /\ FirstType = "application/scim+json"
            /\ IsSome(FirstEntry.schema)

(* C9 as claimed, for inline first responses whose schemas all resolve: a  *)
(* type is returned iff one of the four cases matches, and every other     *)
(* situation ends in the unrepresentable-response error.                   *)
C9_Original ==
    (Returned /\ WellFormed) =>
        /\ IsOk(Result.res) <=> (Case1 \/ Case2 \/ Case3 \/ Case4)
        /\ ~(Case1 \/ Case2 \/ Case3 \/ Case4) => Result.res = NoResponseType

(* C9 amended: a type is returned iff the first response is inline and     *)
(* has no content, or its application/json entry has empty encoding and a  *)
(* schema that resolves, or that entry passes on (absent, or no schema and *)
(* no encoding) and the first content entry is an anonymous content type   *)
(* with a schema that resolves or application/scim+json with empty         *)
(* encoding and a schema that resolves.  The unrepresentable-response      *)
(* error is returned exactly when the application/json entry passes on and *)
(* the first content entry is neither an anonymous content type with a     *)
(* schema nor application/scim+json with a schema or with encoding.  Every *)
(* other situation ends in another failure (encoding not empty, a first    *)
(* response given by reference, a schema the registry cannot resolve, or   *)
(* the unwrap of an empty responses map), never in a type.                 *)
C9_TypeIffCase ==
    Returned =>
        /\ IsOk(Result.res) <=>
            \/ Case1
            \/ JsonUsable /\ Resolves(JsonEntry.schema)
            \/ JsonPassesOn /\ ListedAnonymous /\ Resolves(FirstEntry.schema)
            \/ JsonPassesOn /\ FirstType = "application/scim+json"
                  /\ FirstEntry.encoding = <<>> /\ Resolves(FirstEntry.schema)
        /\ Result.res = NoResponseType <=>
            /\ JsonPassesOn
            /\ ~(ListedAnonymous /\ IsSome(FirstEntry.schema))
            /\ ~(FirstType = "application/scim+json"
                    /\ (IsSome(FirstEntry.schema) \/ FirstEntry.encoding # <<>>))
        /\ ~IsOk(Result.res) => Unchanged(Result)

C9_Witness ==
    /\ Returned /\ HasJson /\ Len(FirstContent) = 1
    /\ JsonEntry = MediaType(None, <<>>)
    /\ Result.res = NoResponseType

NotEmptyError(r) == IsErr(r.res) /\ r.res.v[1] = "media type encoding not empty"

(* C10 as claimed: non-empty encoding on the application/json entry, or on *)
(* an application/scim+json entry standing first, is always rejected.      *)
C10_Original ==
    (Returned /\ HasContent /\
        \/ HasJson /\ JsonEntry.encoding # <<>>
        \/ FirstType = "application/scim+json" /\ FirstEntry.encoding # <<>>)
    => ~IsOk(Result.res)

(* C10 amended: non-empty encoding is rejected with the encoding error,    *)
(* and no type is produced, whenever it is on the application/json entry,  *)
(* or on an application/scim+json entry standing first while the content   *)
(* has no application/json entry with a schema.                            *)
C10_EncodingRejected ==
    (Returned /\ HasContent /\
        \/ HasJson /\ JsonEntry.encoding # <<>>
        \/ FirstType = "application/scim+json" /\ FirstEntry.encoding # <<>>
              /\ ~(HasJson /\ IsSome(JsonEntry.schema)))
    => NotEmptyError(Result) /\ Unchanged(Result)

C10_Witness ==
    /\ Returned /\ HasContent /\ Len(FirstContent) = 2
    /\ FirstType = "application/scim+json"
    /\ FirstEntry = MediaType(Some(ObjectSchema), <<"profileImage">>)
    /\ HasJson /\ JsonEntry = MediaType(None, <<>>)
    /\ Result.res = EncodingNotEmpty(FirstEntry)


----------------------------------------------------------------------------
(* openapiv3::Parameter.  `kind` is the variant (Query, Path, Header,       *)
(* Cookie); style and allow_empty_value are read for Query only.           *)

ParameterData(name, description, schema) ==
    [name |-> name, description |-> description, schema |-> schema]

Parameter(kind, style, allow_empty_value, parameter_data) ==
    [kind |-> kind, style |-> style, allow_empty_value |-> allow_empty_value,
     parameter_data |-> parameter_data]

get_parameter_data(param) == Some(param.parameter_data)

(* ParameterDataExt::render_type: the Rust type of a parameter, by the     *)
(* kind of its schema; an enumeration is a named type of the registry.     *)
parameter_render_type(data, param_name, ts) ==
    LET k == data.schema.kind
    IN  IF k = "string" THEN [res |-> Ok("&str"), ts |-> ts]
        ELSE IF k = "integer" THEN [res |-> Ok("i64"), ts |-> ts]
        ELSE IF k = "boolean" THEN [res |-> Ok("bool"), ts |-> ts]
        ELSE IF k = "date-time" THEN [res |-> Ok("DateTime<Utc>"), ts |-> ts]
        ELSE IF k = "array" THEN [res |-> Ok("&[String]"), ts |-> ts]
        ELSE select_render(ts,
                Some(IF param_name = "" THEN data.name ELSE param_name),
                data.schema)

(* TypeSpace::select_param and TypeSpace::render_docs *)
select_param(ts, name, par, data) == select(ts, name, data.schema)
render_docs(ts, id) == ts[id].schema.description

----------------------------------------------------------------------------
(* BTreeMap<String, V>: pairs sorted by key *)

RECURSIVE BTreeInsertAt(_, _, _, _)
BTreeInsertAt(m, k, v, i) ==
    IF i > Len(m) THEN Append(m, <<k, v>>)
    ELSE IF m[i][1] = k THEN [m EXCEPT ![i] = <<k, v>>]
    ELSE IF StrLess(k, m[i][1])
    THEN SubSeq(m, 1, i - 1) \o << <<k, v>> >> \o SubSeq(m, i, Len(m))
    ELSE BTreeInsertAt(m, k, v, i + 1)

(* a map whose iteration order changes from one run to the next, as that  *)
(* of a HashMap does: a later run finds the newest key first               *)
BTreeInsert_Hashed(m, k, v) ==
    IF ret = None \/ k \in Keys(m) THEN BTreeInsertAt(m, k, v, 1)
    ELSE << <<k, v>> >> \o m

BTreeInsert(m, k, v) == BTreeInsertAt(m, k, v, 1)

----------------------------------------------------------------------------
(* The resolution of a parameter given inline or by reference (lines       *)
(* 247-259 and 393-405): the parameter and the name it is looked up under. *)

ParameterPrefix == "#/components/parameters/"

(* a resolution whose error names the table key instead of the reference   *)
ResolveParameter_KeyInError(par, parameters) ==
    IF par.kind = "Reference"
    THEN LET param_name == struct_name(RemoveAll(par.reference, ParameterPrefix))
             found == MapGet(parameters, param_name)
         IN  IF IsSome(found)
             THEN Ok([param_name |-> param_name,
                      item |-> parameters[Unwrap(found)][2]])
             ELSE Err(<<"could not find parameter with reference", param_name>>)
    ELSE Ok([param_name |-> "", item |-> par.item])

ResolveParameter(par, parameters) ==
    IF par.kind = "Reference"
    THEN LET param_name == struct_name(RemoveAll(par.reference, ParameterPrefix))
             found == MapGet(parameters, param_name)
         IN  IF IsSome(found)
             THEN Ok([param_name |-> param_name,
                      item |-> parameters[Unwrap(found)][2]])
             ELSE Err(<<"could not find parameter with reference", par.reference>>)
    ELSE Ok([param_name |-> "", item |-> par.item])

IsReserved(nam) == nam = "ref" \/ nam = "type"

(* lines 290-304: the source expression of a query binding, by type *)
QueryExpression(nam, typ) ==
    IF typ = "DateTime<Utc>" THEN nam \o ".to_rfc3339()"
    ELSE IF typ = "i64" \/ typ = "bool" THEN "format!(\"{}\", " \o nam \o ")"
    ELSE IF typ = "&str" THEN nam \o ".to_string()"
    ELSE IF typ = "&[String]" THEN nam \o ".join(\" \")"
    ELSE nam

(* lines 262-268: the signature entry of a parameter *)
SignatureEntry(nam, typ) ==
    IF IsReserved(nam) THEN nam \o "_: " \o typ \o ","
    ELSE nam \o ": " \o typ \o ","

(* lines 272-305: the query binding of a form-style query parameter *)
QueryBinding(query_params, nam, typ) ==
    IF IsReserved(nam) THEN BTreeInsert(query_params, nam, nam \o "_")
    ELSE BTreeInsert(query_params, nam, QueryExpression(nam, typ))

RECURSIVE FnParamsLoop(_, _, _, _, _, _)
FnParamsLoop(ts, pars, parameters, i, fn_params_str, query_params) ==
    IF i > Len(pars)
    THEN [res |-> Ok([fn_params_str |-> fn_params_str,
                      query_params |-> query_params]), ts |-> ts]
    ELSE LET r == ResolveParameter(pars[i], parameters)
             it == r.v.item
             parameter_data == Unwrap(get_parameter_data(it))
             nam == to_snake_case(parameter_data.name)
             rt == parameter_render_type(parameter_data, r.v.param_name, ts)
             typ == rt.res.v
             sig == Append(fn_params_str, SignatureEntry(nam, typ))
         IN  IF ~IsOk(r) THEN [res |-> r, ts |-> ts]
             ELSE IF ~IsOk(rt.res) THEN rt
             ELSE IF it.kind = "Query" /\ it.style = "form"
             THEN IF it.allow_empty_value = Some(TRUE)
                  THEN [res |-> Err(<<"allow empty value is a no go">>),
                        ts |-> rt.ts]
                  ELSE FnParamsLoop(rt.ts, pars, parameters, i + 1, sig,
                                    QueryBinding(query_params, nam, typ))
             ELSE FnParamsLoop(rt.ts, pars, parameters, i + 1, sig, query_params)

(* a parameter loop without the check of lines 279-283 *)
get_fn_params_EmptyAllowed(ts, o, parameters) ==
    FnParamsLoop(ts,
        [i \in 1..Len(o.parameters) |->
            IF o.parameters[i].kind = "Item"
            THEN Item([o.parameters[i].item EXCEPT !.allow_empty_value = None])
            ELSE o.parameters[i]],
        parameters, 1, <<>>, <<>>)

get_fn_params(ts, o, parameters) ==
    FnParamsLoop(ts, o.parameters, parameters, 1, <<>>, <<>>)

----------------------------------------------------------------------------
(* get_fn_docs: the documentation block of a function, a sequence of lines *)

(* lines 410-425: the text after the bullet of a parameter *)
ParameterDocs(description, docs) ==
    LET fromDocs == " -- " \o trim(trim_end_matches(trim_start_matches(docs, "*"), "."))
                        \o "."
    IN  IF IsSome(description)
        THEN LET d == Unwrap(description)
             IN  IF Len(d) # 0 /\ Len(d) > Len(docs)
                 THEN " -- " \o trim_end_matches(d, ".") \o "."
                 ELSE IF Len(docs) # 0 THEN fromDocs ELSE docs
        ELSE IF Len(docs) # 0 THEN fromDocs ELSE docs

(* a bullet that forgets the escape of reserved words *)
DocsBullet_Unescaped(nam, typ, docs) == "* * '" \o nam \o ": " \o typ \o "'" \o docs

(* lines 427-434: the bullet of a parameter *)
DocsBullet(nam, typ, docs) ==
    IF IsReserved(nam) THEN "* * '" \o nam \o "_: " \o typ \o "'" \o docs
    ELSE "* * '" \o nam \o ": " \o typ \o "'" \o docs

RECURSIVE FnDocsLoop(_, _, _, _, _)
FnDocsLoop(ts, pars, parameters, i, out) ==
    IF i > Len(pars) THEN [res |-> Ok(Append(out, "*/")), ts |-> ts]
    ELSE LET r == ResolveParameter(pars[i], parameters)
             parameter_data == Unwrap(get_parameter_data(r.v.item))
             pid == select_param(ts, None, pars[i], parameter_data)
             docs == ParameterDocs(parameter_data.description,
                                   render_docs(pid.ts, pid.res.v))
             nam == to_snake_case(clean_name(parameter_data.name))
             rt == parameter_render_type(parameter_data, r.v.param_name, pid.ts)
         IN  IF ~IsOk(r) THEN [res |-> r, ts |-> ts]
             ELSE IF ~IsOk(pid.res) THEN pid
             ELSE IF ~IsOk(rt.res) THEN rt
             ELSE FnDocsLoop(rt.ts, pars, parameters, i + 1,
                             Append(out, DocsBullet(nam, rt.res.v, docs)))

(* lines 369-390: the lines before the bullets *)
DocsHeader(o, m, p) ==
    <<"/**">>
    \o (IF IsSome(o.summary)
        THEN <<"* " \o trim_end_matches(Unwrap(o.summary), ".") \o ".", "*">>
        ELSE <<>>)
    \o <<"* This function performs a '" \o m \o "' to the '" \o p \o "' endpoint.">>
    \o (IF IsSome(o.description)
        THEN <<"*", "* " \o Unwrap(o.description)>> ELSE <<>>)
    \o (IF IsSome(o.external_docs)
        THEN <<"*", "* FROM: <" \o Unwrap(o.external_docs) \o ">">> ELSE <<>>)
    \o (IF o.parameters # <<>> THEN <<"*", "* **Parameters:**", "*">> ELSE <<>>)

get_fn_docs(o, m, p, parameters, ts) ==
    FnDocsLoop(ts, o.parameters, parameters, 1, DocsHeader(o, m, p))

----------------------------------------------------------------------------
(* Bounded inputs of get_fn_docs and get_fn_params *)

MaxParams == 3      \* declared parameters of one operation

IntegerSchema == Schema("integer", "integer", "")
BooleanSchema == Schema("boolean", "boolean", "")
DateTimeSchema == Schema("date-time", "string(date-time)", "")
ArraySchema == Schema("array", "[string]", "")
EnumSchema == Schema("enum", "assigned|unassigned|all", "* The assignment.")

Query(name, schema) ==
    Parameter("Query", "form", None,
              ParameterData(name, Some("Unique identifier."), schema))

(* the shared parameter table (components/parameters), sorted by key *)
ParameterTable ==
    << <<"PageSize", Parameter("Query", "form", Some(FALSE),
            ParameterData("page_size", Some("The number of records."),
                          IntegerSchema))>> >>

DeclaredParameters ==
    {Item(Query("b", StringSchema)),
     Item(Query("a", StringSchema)),
     Item(Query("c", StringSchema)),
     Item(Query("type", EnumSchema)),
     Item(Query("type", StringSchema)),
     Item(Query("userId", StringSchema)),
     Item(Query("user_id", IntegerSchema)),
     Item(Query("from", DateTimeSchema)),
     Item(Query("pending", BooleanSchema)),
     Item(Query("ids", ArraySchema)),
     Item(Query("filter", DanglingSchema)),
     Item(Parameter("Query", "form", Some(TRUE),
            ParameterData("a", None, StringSchema))),
     Item(Parameter("Query", "spaceDelimited", None,
            ParameterData("fields", None, ArraySchema))),
     Item(Parameter("Path", "simple", None,
            ParameterData("userId", Some("The user."), StringSchema))),
     Item(Parameter("Path", "simple", None,
            ParameterData("ref", None, StringSchema))),
     Item(Parameter("Header", "simple", None,
            ParameterData("traceId", None, StringSchema))),
     Reference("#/components/parameters/PageSize"),
     Reference("#/components/parameters/Missing")}

ParameterArgs(pars) ==
    [fn |-> "parameters", ts |-> NewTypeSpace, m |-> "GET", p |-> "/phone/numbers",
     parameters |-> ParameterTable,
     o |-> Operation(Some("listAccountNumbers"), <<"phone">>, pars, None, <<>>)]

(* an operation declares a parameter (a name in a location) once *)
SameParameter(a, b) ==
    \/ a = b
    \/ /\ a.kind = "Item" /\ b.kind = "Item"
       /\ a.item.kind = b.item.kind
       /\ a.item.parameter_data.name = b.item.parameter_data.name

InitParameters ==
    /\ ret = None
    /\ InitDriver
    /\ \E n \in 0..MaxParams : \E pars \in [1..n -> DeclaredParameters] :
        /\ \A i, j \in 1..n : i # j => ~SameParameter(pars[i], pars[j])
        /\ args = ParameterArgs([i \in 1..n |-> pars[i]])

(* generate_files line 98: the documentation block comes first *)
call_get_fn_docs ==
    /\ args.fn = "parameters"
    /\ ret = None
    /\ ret' = Some([docs |-> get_fn_docs(args.o, args.m, args.p,
                                         args.parameters, args.ts)])
    /\ UNCHANGED <<args, driver>>

(* generate_files line 138, reached when get_fn_docs returned Ok *)
call_get_fn_params ==
    /\ args.fn = "parameters"
    /\ ret # None
    /\ DOMAIN Unwrap(ret) = {"docs"}
    /\ IsOk(Unwrap(ret).docs.res)
    /\ ret' = Some([docs |-> Unwrap(ret).docs,
                    params |-> get_fn_params(Unwrap(ret).docs.ts, args.o,
                                             args.parameters)])
    /\ UNCHANGED <<args, driver>>

NextParameters == call_get_fn_docs \/ call_get_fn_params

SpecParameters == InitParameters /\ [][NextParameters]_vars

----------------------------------------------------------------------------
(* Claims about get_fn_params and get_fn_docs (checked under              *)
(* SpecParameters)                                                         *)

ParamsReturned ==
    args.fn = "parameters" /\ ret # None /\ "params" \in DOMAIN Unwrap(ret)
ParamsOk == ParamsReturned /\ IsOk(Unwrap(ret).params.res)
Declared == args.o.parameters
Signature == Unwrap(ret).params.res.v.fn_params_str
QueryTable == Unwrap(ret).params.res.v.query_params
DocsLines == Unwrap(ret).docs.res.v
Bullet(i) == DocsLines[Len(DocsLines) - 1 - Len(Declared) + i]
DeclaredItem(i) ==
    IF Declared[i].kind = "Item" THEN Declared[i].item
    ELSE args.parameters[Unwrap(MapGet(args.parameters,
            RemoveAll(Declared[i].reference, "#/components/parameters/")))][2]
SnakeName(i) == to_snake_case(DeclaredItem(i).parameter_data.name)
IsFormQuery(i) == DeclaredItem(i).kind = "Query" /\ DeclaredItem(i).style = "form"
Permuted(perm) ==
    [args.o EXCEPT !.parameters = [i \in 1..Len(Declared) |-> Declared[perm[i]]]]

(* C4: the Query Binding Table is sorted by snake-cased parameter name and *)
(* is the same for every permutation of the declared parameters.           *)
C4_PermutationInvariant ==
    ParamsOk =>
        /\ \A i \in 1..(Len(QueryTable) - 1) :
                StrLess(QueryTable[i][1], QueryTable[i + 1][1])
        /\ \A perm \in Permutations(1..Len(Declared)) :
                LET other == get_fn_params(Unwrap(ret).docs.ts, Permuted(perm),
                                           args.parameters)
                IN  IsOk(other.res) /\ other.res.v.query_params = QueryTable

(* C5: a parameter whose snake-cased name is `type` or `ref` carries the   *)
(* trailing underscore in its signature entry, in its bullet of the        *)
(* documentation block and, when it is a form-style query parameter, in    *)
(* the source expression of its query binding.                             *)
C5_ReservedEscapedEverywhere ==
    ParamsOk =>
        \A i \in 1..Len(Declared) :
            SnakeName(i) \in {"type", "ref"} =>
                /\ StartsWith(Signature[i], SnakeName(i) \o "_: ")
                /\ StartsWith(Bullet(i), "* * '" \o SnakeName(i) \o "_: ")
                /\ IsFormQuery(i) =>
                      \E k \in 1..Len(QueryTable) :
                          QueryTable[k] = <<SnakeName(i), SnakeName(i) \o "_">>

C5_Witness ==
    /\ ParamsOk /\ Len(Declared) = 2
    /\ DeclaredItem(1).kind = "Path" /\ SnakeName(1) = "ref"
    /\ IsFormQuery(2) /\ SnakeName(2) = "type"
    /\ Signature = <<"ref_: &str,", "type_: crate::types::Type,">>
    /\ QueryTable = << <<"type", "type_">> >>
    /\ Bullet(1) = "* * 'ref_: &str'"

(* the operation with its first n declared parameters only *)
Prefix(n) == [args.o EXCEPT !.parameters = SubSeq(Declared, 1, n)]
(* the operation with its i-th declared parameter given inline *)
Inlined(i) == [args.o EXCEPT !.parameters[i] = Item(DeclaredItem(i))]
DocsOf(o) == get_fn_docs(o, args.m, args.p, args.parameters, args.ts)
ParamsOf(o) == get_fn_params(args.ts, o, args.parameters)
IsReference(i) == Declared[i].kind = "Reference"
ReferenceResolves(i) ==
    RemoveAll(Declared[i].reference, "#/components/parameters/")
        \in Keys(args.parameters)
ReferenceError(i) ==
    Err(<<"could not find parameter with reference", Declared[i].reference>>)

AllowsEmpty(i) == DeclaredItem(i).allow_empty_value = Some(TRUE)

(* C14: a declared form-style query parameter with allow_empty_value =     *)
(* true makes get_fn_params fail with its fatal error; when get_fn_params  *)
(* succeeds, the keys of the Query Binding Table are exactly the           *)
(* snake-cased names of the form-style query parameters, so that every     *)
(* one of them (allow_empty_value absent or false) is entered, and no path *)
(* or header parameter is.                                                 *)
C14_FormQueryOnly ==
    ParamsReturned =>
        /\ (\E i \in 1..Len(Declared) : IsFormQuery(i) /\ AllowsEmpty(i)) =>
                Unwrap(ret).params.res = Err(<<"allow empty value is a no go">>)
        /\ ParamsOk =>
                /\ \A i \in 1..Len(Declared) : ~(IsFormQuery(i) /\ AllowsEmpty(i))
                /\ Keys(QueryTable) =
                      {SnakeName(i) : i \in {j \in 1..Len(Declared) : IsFormQuery(j)}}

C14_Witness ==
    /\ ParamsReturned
    /\ Declared = <<Reference("#/components/parameters/PageSize"),
                    Item(Parameter("Header", "simple", None,
                            ParameterData("traceId", None, StringSchema))),
                    Item(Parameter("Query", "form", Some(TRUE),
                            ParameterData("a", None, StringSchema)))>>
    /\ Unwrap(ret).params.res = Err(<<"allow empty value is a no go">>)

(* a run that succeeds with parameters of every location *)
C14_Entered ==
    /\ ParamsOk
    /\ Declared = <<Item(Parameter("Path", "simple", None,
                            ParameterData("userId", Some("The user."), StringSchema))),
                    Reference("#/components/parameters/PageSize"),
                    Item(Parameter("Header", "simple", None,
                            ParameterData("traceId", None, StringSchema)))>>
    /\ QueryTable = << <<"page_size", "format!(\"{}\", page_size)">> >>

(* the operation that declares the i-th parameter alone *)
Alone(i) == [args.o EXCEPT !.parameters = <<Declared[i]>>]
Identifier(i) == IF IsReserved(SnakeName(i)) THEN SnakeName(i) \o "_" ELSE SnakeName(i)
TypeKind(i) == DeclaredItem(i).parameter_data.schema.kind
ExpressionByType(i) ==
    IF TypeKind(i) = "date-time" THEN Identifier(i) \o ".to_rfc3339()"
    ELSE IF TypeKind(i) \in {"integer", "boolean"}
    THEN "format!(\"{}\", " \o Identifier(i) \o ")"
    ELSE IF TypeKind(i) = "string" THEN Identifier(i) \o ".to_string()"
    ELSE IF TypeKind(i) = "array" THEN Identifier(i) \o ".join(\" \")"
    ELSE Identifier(i)

(* C15: the source expression that get_fn_params stores for a form-style   *)
(* query parameter is the one its resolved type selects: to_rfc3339() for  *)
(* a date-time, a display-formatted string for an integer or a boolean,    *)
(* to_string() for a string, join(" ") for a string sequence, and the      *)
(* parameter identifier itself for every other type.                       *)
C15_ExpressionByType ==
    ParamsOk =>
        \A i \in 1..Len(Declared) :
            IsFormQuery(i) =>
                ParamsOf(Alone(i)).res.v.query_params =
                    << <<SnakeName(i), ExpressionByType(i)>> >>

(* the rule restricted to parameters whose name is not a reserved word *)
C15_Unreserved ==
    ParamsOk =>
        \A i \in 1..Len(Declared) :
            (IsFormQuery(i) /\ ~IsReserved(SnakeName(i))) =>
                ParamsOf(Alone(i)).res.v.query_params =
                    << <<SnakeName(i), ExpressionByType(i)>> >>

C15_ReservedString ==
    /\ ParamsOk
    /\ Declared = <<Item(Query("type", StringSchema))>>
    /\ Signature = <<"type_: &str,">>
    /\ QueryTable = << <<"type", "type_">> >>

(* the name of a signature entry `name: type,` *)
EntryName(e) ==
    SubSeq(e, 1, (CHOOSE i \in 1..Len(e) :
                    /\ CharAt(e, i) = ":"
                    /\ \A j \in 1..(i - 1) : CharAt(e, j) # ":") - 1)

(* C27: the names of the parameters of a signature get_fn_params returns   *)
(* are pairwise distinct.                                                  *)
C27_DistinctNames ==
    ParamsOk =>
        \A i, j \in 1..Len(Signature) :
            EntryName(Signature[i]) = EntryName(Signature[j]) => i = j

(* distinct names for parameters whose snake-cased names are distinct *)
C27_DistinctWhenDeclaredSo ==
    (ParamsOk /\ \A i, j \in 1..Len(Declared) : SnakeName(i) = SnakeName(j) => i = j) =>
        \A i, j \in 1..Len(Signature) :
            EntryName(Signature[i]) = EntryName(Signature[j]) => i = j

C27_TwoLocations ==
    /\ ParamsOk
    /\ Len(Declared) = 2
    /\ DeclaredItem(1).kind = "Path" /\ DeclaredItem(2).kind = "Query"
    /\ DeclaredItem(1).parameter_data.name = "userId"
    /\ DeclaredItem(2).parameter_data.name = "userId"
    /\ Signature = <<"user_id: &str,", "user_id: &str,">>

(* the i-th declared parameter reaches the request: it fills a placeholder *)
(* of the path or has an entry of the Query Binding Table                  *)
Transmitted(i) ==
    \/ DeclaredItem(i).kind = "Path"
    \/ SnakeName(i) \in Keys(QueryTable)

(* C30: every declared parameter, each of which has an entry in the        *)
(* signature get_fn_params returns, fills a placeholder of the path or has *)
(* an entry of the Query Binding Table.                                    *)
C30_EveryParameterTransmitted ==
    ParamsOk =>
        /\ Len(Signature) = Len(Declared)
        /\ \A i \in 1..Len(Declared) : Transmitted(i)

(* the parameters of a path and the form-style query parameters are *)
C30_PathAndFormQuery ==
    ParamsOk =>
        /\ Len(Signature) = Len(Declared)
        /\ \A i \in 1..Len(Declared) :
              (DeclaredItem(i).kind = "Path" \/ IsFormQuery(i)) => Transmitted(i)

C30_HeaderLeftOut ==
    /\ ParamsOk
    /\ Len(Declared) = 2
    /\ DeclaredItem(1).kind = "Header" /\ DeclaredItem(2).kind = "Query"
    /\ DeclaredItem(2).style = "spaceDelimited"
    /\ Signature = <<"trace_id: &str,", "fields: &[String],">>
    /\ QueryTable = <<>>

----------------------------------------------------------------------------
(* The URL Template Compiler (crate::template): parse splits a path into   *)
(* literal and `{param}` segments and fails on an unbalanced brace or an   *)
(* empty placeholder; compile renders the path with its placeholders      *)
(* escaped, followed by the name=value pairs of the Query Binding Table in *)
(* table order.                                                            *)

MalformedTemplate(p) == Err(<<"malformed template", p>>)

RECURSIVE ParseFrom(_, _, _, _, _)
ParseFrom(p, i, cur, inParam, segs) ==
    IF i > Len(p)
    THEN IF inParam THEN MalformedTemplate(p)
         ELSE Ok(IF cur = "" THEN segs ELSE Append(segs, <<"literal", cur>>))
    ELSE LET c == CharAt(p, i)
         IN  IF c = "{"
             THEN IF inParam THEN MalformedTemplate(p)
                  ELSE ParseFrom(p, i + 1, "", TRUE,
                          IF cur = "" THEN segs ELSE Append(segs, <<"literal", cur>>))
             ELSE IF c = "}"
             THEN IF ~inParam \/ cur = "" THEN MalformedTemplate(p)
                  ELSE ParseFrom(p, i + 1, "", FALSE, Append(segs, <<"param", cur>>))
             ELSE ParseFrom(p, i + 1, cur \o c, inParam, segs)

parse(p) == ParseFrom(p, 1, "", FALSE, <<>>)

RECURSIVE Join(_, _)
Join(strs, sep) ==
    IF Len(strs) = 0 THEN ""
    ELSE IF Len(strs) = 1 THEN strs[1]
    ELSE strs[1] \o sep \o Join(Tail(strs), sep)

Segment(seg) ==
    IF seg[1] = "literal" THEN seg[2]
    ELSE "{encode(" \o to_snake_case(seg[2]) \o ")}"

Pair(binding) == binding[1] \o "={" \o binding[2] \o "}"

compile(tmp, query_params) ==
    Join([i \in 1..Len(tmp) |-> Segment(tmp[i])], "")
    \o (IF query_params = <<>> THEN ""
        ELSE "?" \o Join([i \in 1..Len(query_params) |-> Pair(query_params[i])],
                         "&"))

----------------------------------------------------------------------------
(* get_fn_inner: the HTTP call of the function body *)

RECURSIVE to_lowercase(_)
to_lowercase(s) ==
    IF Len(s) = 0 THEN ""
    ELSE ToLowerChar(CharAt(s, 1)) \o to_lowercase(SubSeq(s, 2, Len(s)))

TokenOperation == "apps_create_installation_access_token"

(* a get_fn_inner whose GET call takes the body as the other verbs do *)
get_fn_inner_GetWithBody(oid, m, body_func) ==
    IF m \in {"GET", "POST", "PATCH", "PUT", "DELETE"} /\ oid # TokenOperation
    THEN LET body ==
                IF IsSome(body_func)
                THEN IF Unwrap(body_func) = "json"
                     THEN "Some(reqwest::Body::from(serde_json::to_vec(body).unwrap()))"
                     ELSE "Some(body.into())"
                ELSE "None"
         IN  Ok("self.client." \o to_lowercase(m) \o "(&url, " \o body \o ").await")
    ELSE IF oid # TokenOperation
    THEN Err(<<"function should be authenticated", oid>>)
    ELSE Ok("self.client.post_media(&url, Some(reqwest::Body::from(serde_json::to_vec(body).unwrap())), crate::utils::MediaType::Json, crate::auth::AuthenticationConstraint::JWT).await")

(* a get_fn_inner without the whitelisted operation *)
get_fn_inner_NoWhitelist(oid, m, body_func) ==
    IF m = "GET" THEN Ok("self.client." \o to_lowercase(m) \o "(&url).await")
    ELSE IF m \in {"POST", "PATCH", "PUT", "DELETE"}
    THEN LET body ==
                IF IsSome(body_func)
                THEN IF Unwrap(body_func) = "json"
                     THEN "Some(reqwest::Body::from(serde_json::to_vec(body).unwrap()))"
                     ELSE "Some(body.into())"
                ELSE "None"
         IN  Ok("self.client." \o to_lowercase(m) \o "(&url, " \o body \o ").await")
    ELSE Err(<<"function should be authenticated", oid>>)

(* a get_fn_inner that asks a mutating verb for a body strategy *)
get_fn_inner_BodyRequired(oid, m, body_func) ==
    IF m = "GET" THEN Ok("self.client." \o to_lowercase(m) \o "(&url).await")
    ELSE IF m \in {"POST", "PATCH", "PUT", "DELETE"} /\ oid # TokenOperation
            /\ IsSome(body_func)
    THEN LET body ==
                IF Unwrap(body_func) = "json"
                THEN "Some(reqwest::Body::from(serde_json::to_vec(body).unwrap()))"
                ELSE "Some(body.into())"
         IN  Ok("self.client." \o to_lowercase(m) \o "(&url, " \o body \o ").await")
    ELSE IF oid # TokenOperation
    THEN Err(<<"function should be authenticated", oid>>)
    ELSE Ok("self.client.post_media(&url, Some(reqwest::Body::from(serde_json::to_vec(body).unwrap())), crate::utils::MediaType::Json, crate::auth::AuthenticationConstraint::JWT).await")

get_fn_inner(oid, m, body_func) ==
    IF m = "GET" THEN Ok("self.client." \o to_lowercase(m) \o "(&url).await")
    ELSE IF m \in {"POST", "PATCH", "PUT", "DELETE"} /\ oid # TokenOperation
    THEN LET body ==
                IF IsSome(body_func)
                THEN IF Unwrap(body_func) = "json"
                     THEN "Some(reqwest::Body::from(serde_json::to_vec(body).unwrap()))"
                     ELSE "Some(body.into())"
                ELSE "None"
         IN  Ok("self.client." \o to_lowercase(m) \o "(&url, " \o body \o ").await")
    ELSE IF oid # TokenOperation
    THEN Err(<<"function should be authenticated", oid>>)
    ELSE Ok("self.client.post_media(&url, Some(reqwest::Body::from(serde_json::to_vec(body).unwrap())), crate::utils::MediaType::Json, crate::auth::AuthenticationConstraint::JWT).await")

----------------------------------------------------------------------------
(* generate_files lines 102-133: the request body *)

RequestBody(content) == [content |-> content]

BinarySchema == Schema("binary", "string(binary)", "")

(* ExtractJsonMediaType::is_binary: the body is one binary media type *)
is_binary(b) ==
    Ok(Len(b.content) = 1 /\ IsSome(b.content[1][2].schema)
            /\ Unwrap(b.content[1][2].schema).kind = "binary")

NoBody == [body_param |-> None, body_func |-> None, bounds |-> <<>>]

ClassifyContent(oid, ts, b) ==
    LET ct == b.content[1][1]
        mt == b.content[1][2]
        named == select_render(ts, Some(oid_to_object_name(oid) \o " request"),
                               Unwrap(mt.schema))
        anon == select_render(ts, None, Unwrap(mt.schema))
    IN  IF b.content = <<>>
        THEN [res |-> Panic("unwrap on None: content.first()"), ts |-> ts]
        ELSE IF ct = "application/json"
        THEN IF IsSome(mt.schema)
             THEN IF ~IsOk(named.res) THEN named
                  ELSE [res |-> Ok([body_param |-> Some("&" \o named.res.v),
                                    body_func |-> Some("json"),
                                    bounds |-> <<>>]),
                        ts |-> named.ts]
             ELSE [res |-> Ok(NoBody), ts |-> ts]
        ELSE IF IsSome(mt.schema)
        THEN IF ~IsOk(anon.res) THEN anon
             ELSE [res |-> Ok([body_param |->
                                  Some(IF anon.res.v = "String" THEN "T"
                                       ELSE anon.res.v),
                               body_func |-> Some("body"),
                               bounds |-> <<"T: Into<reqwest::Body>">>]),
                   ts |-> anon.ts]
        ELSE [res |-> Ok(NoBody), ts |-> ts]

ClassifyBody(oid, ts, o) ==
    IF ~IsSome(o.request_body) THEN [res |-> Ok(NoBody), ts |-> ts]
    ELSE LET b == item(Unwrap(o.request_body))
         IN  IF ~IsOk(b) THEN [res |-> b, ts |-> ts]
             ELSE IF ~IsOk(is_binary(b.v)) THEN [res |-> is_binary(b.v), ts |-> ts]
             ELSE IF is_binary(b.v).v
             THEN [res |-> Ok([body_param |-> Some("B"),
                               body_func |-> Some("body"),
                               bounds |-> <<"B: Into<reqwest::Body>">>]),
                   ts |-> ts]
             ELSE ClassifyContent(oid, ts, b.v)

----------------------------------------------------------------------------
(* generate_files: one function per operation, grouped by tag.  The text   *)
(* of a Tag Group is a sequence of lines.                                  *)

BTreeGet(m, k) ==
    IF k \in Keys(m) THEN Some(m[CHOOSE i \in 1..Len(m) : m[i][1] = k][2])
    ELSE None

(* lines 69 and 74: the function name *)
FnName(oid, tag) == trim_start_matches(trim_start_matches(oid, tag), "_")

(* lines 50-96 *)
print_fn(out, oid, tag, docs, bounds, fn_params_str, body_param, response_type, template, fn_inner) ==
    out \o docs
    \o (IF oid = TokenOperation
        THEN <<"#[async_recursion::async_recursion]">> ELSE <<>>)
    \o (IF bounds = <<>> THEN <<"pub async fn " \o FnName(oid, tag) \o "(">>
        ELSE <<"pub async fn " \o FnName(oid, tag) \o "<" \o Join(bounds, ", ")
                \o ">(">>)
    \o <<"&self,">>
    \o (IF fn_params_str # <<>> THEN <<Join(fn_params_str, " ")>> ELSE <<>>)
    \o (IF IsSome(body_param) THEN <<"body: " \o Unwrap(body_param)>> ELSE <<>>)
    \o <<") -> Result<" \o response_type \o "> {", template, fn_inner, "}", "">>

(* a gen that files the function under the tag as the document spells it *)
GroupKey_Raw(t) == t

(* line 38: the key of the Tag Group *)
GroupKey(t) == to_snake_case(t)

(* gen returns early: the Tag Groups are as they were *)
Stop(files, r, ts) == [res |-> r, tag_files |-> files, ts |-> ts]

(* a gen that starts the text of the Tag Group anew for every function *)
gen_print_Fresh(files, ts, oid, tag, docs, body, params, response_type, template, fn_inner) ==
    [res |-> Ok(<<>>),
     tag_files |->
         BTreeInsert(files, tag,
             print_fn(<<>>, oid, tag, docs, body.bounds, params.fn_params_str,
                      body.body_param, response_type, template, fn_inner)),
     ts |-> ts]

(* lines 40-43 and 153-170: the function is appended to the text of its    *)
(* Tag Group and the group is stored                                       *)
gen_print(files, ts, oid, tag, docs, body, params, response_type, template, fn_inner) ==
    LET found == BTreeGet(files, tag)
        out == IF IsSome(found) THEN Unwrap(found) ELSE <<>>
    IN  [res |-> Ok(<<>>),
         tag_files |->
             BTreeInsert(files, tag,
                 print_fn(out, oid, tag, docs, body.bounds, params.fn_params_str,
                          body.body_param, response_type, template, fn_inner)),
         ts |-> ts]

(* lines 148-151: the URL template and the HTTP call *)
gen_template(files, ts, oid, tag, docs, body, params, response_type, tmp, fn_inner) ==
    IF ~IsOk(tmp) THEN Stop(files, tmp, ts)
    ELSE IF ~IsOk(fn_inner) THEN Stop(files, fn_inner, ts)
    ELSE gen_print(files, ts, oid, tag, docs, body, params, response_type,
                   compile(tmp.v, params.query_params), fn_inner.v)

(* line 143: the result of get_response_type *)
gen_response(files, p, m, oid, tag, docs, body, params, response_type) ==
    IF ~IsOk(response_type.res)
    THEN Stop(files, response_type.res, response_type.ts)
    ELSE gen_template(files, response_type.ts, oid, tag, docs, body, params,
                      response_type.res.v, parse(p),
                      get_fn_inner(oid, m, body.body_func))

(* line 138: the result of get_fn_params *)
gen_params(files, p, m, op, oid, tag, docs, body, params) ==
    IF ~IsOk(params.res) THEN Stop(files, params.res, params.ts)
    ELSE gen_response(files, p, m, oid, tag, docs, body, params.res.v,
                      get_response_type(oid, params.ts, op))

(* lines 100-133: the result of the request body *)
gen_body(files, parameters, p, m, op, oid, tag, docs, body) ==
    IF ~IsOk(body.res) THEN Stop(files, body.res, body.ts)
    ELSE gen_params(files, p, m, op, oid, tag, docs, body.res.v,
                    get_fn_params(body.ts, op, parameters))

(* line 98: the result of get_fn_docs *)
gen_docs(files, parameters, p, m, op, oid, tag, docs) ==
    IF ~IsOk(docs.res) THEN Stop(files, docs.res, docs.ts)
    ELSE gen_body(files, parameters, p, m, op, oid, tag, docs.res.v,
                  ClassifyBody(oid, docs.ts, op))

(* lines 35-38: exactly one tag *)
gen_tag(files, ts, parameters, p, m, op, oid) ==
    IF Len(op.tags) # 1
    THEN Stop(files, Err(<<"invalid number of tags for op", oid, Len(op.tags)>>),
              ts)
    ELSE gen_docs(files, parameters, p, m, op, oid, GroupKey(op.tags[1]),
                  get_fn_docs(op, m, p, parameters, ts))

(* lines 24-171: the closure gen; o is an Option<&Operation> *)
gen(files, ts, parameters, p, m, o) ==
    IF ~IsSome(o) THEN Stop(files, Ok(<<>>), ts)
    ELSE IF ~IsSome(Unwrap(o).operation_id)
    THEN Stop(files, Panic("unwrap on None: operation_id"), ts)
    ELSE gen_tag(files, ts, parameters, p, m, Unwrap(o),
                 to_snake_case(Unwrap(Unwrap(o).operation_id)))

(* a driver that tries the verbs in alphabetical order *)
Verbs_Alphabetical ==
    <<"DELETE", "GET", "HEAD", "OPTIONS", "PATCH", "POST", "PUT", "TRACE">>

(* lines 173-180: the verbs in the order gen is called for them *)
Verbs == <<"GET", "PUT", "POST", "DELETE", "OPTIONS", "HEAD", "PATCH", "TRACE">>

----------------------------------------------------------------------------
(* Bounded inputs of generate_files.  The document is read as the run      *)
(* reaches it: a path when the loop takes it from api.paths, the operation *)
(* of a verb when gen is called for it.                                    *)

MaxPaths == 2       \* paths of the document
MaxOps == 2         \* operations of the document

PathNames ==
    <<"/phone/numbers", "/phone/users/{userId}", "/phone/devices",
      "/phone/sites", "/phone/sites/{siteId}">>

JsonResponses ==
    << <<"200", Item(Response(
            << <<"application/json", MediaType(Some(ObjectSchema), <<>>)>> >>))>> >>

OperationIds == {None, Some("listNumbers")}
TagLists == {<<>>, <<"Phone">>, <<"users">>, <<"Phone", "users">>}

Operations ==
    {Operation(id, tags, <<>>, None, JsonResponses) :
        id \in OperationIds, tags \in TagLists}
    \cup {Operation(Some("getUser"), <<"users">>, <<>>, None,
            << <<"200", Reference("#/components/responses/NotFound")>> >>)}

GenerateArgs == [fn |-> "generate_files", parameters |-> ParameterTable]

Init ==
    /\ args = GenerateArgs
    /\ ret = None
    /\ InitDriver

Running == args.fn = "generate_files" /\ ret = None

(* lines 21-22: the next path of api.paths, and p.item() on it *)
next_path ==
    /\ Running
    /\ verb = 9
    /\ Len(paths) < MaxPaths /\ Len(paths) < Len(PathNames)
    /\ paths' = Append(paths, PathNames[Len(paths) + 1])
    /\ \E p \in {Item("PathItem"), Reference("#/components/pathItems/Shared")} :
        IF IsOk(item(p))
        THEN verb' = 1 /\ UNCHANGED ret
        ELSE ret' = Some(item(p)) /\ UNCHANGED verb
    /\ UNCHANGED <<args, tag_files, type_space, visited, earlier>>

(* lines 173-180: the next call of gen for the current path *)
call_gen ==
    /\ Running
    /\ verb \in 1..8
    /\ \E o \in {None} \cup {Some(x) : x \in Operations} :
        LET p == paths[Len(paths)]
            m == Verbs[verb]
            r == gen(tag_files, type_space, args.parameters, p, m, o)
        IN  /\ IsSome(o) => Len(visited) < MaxOps
            /\ visited' = IF IsSome(o) THEN Append(visited, <<p, m, Unwrap(o)>>)
                          ELSE visited
            /\ type_space' = r.ts
            /\ IF IsOk(r.res)
               THEN tag_files' = r.tag_files /\ verb' = verb + 1 /\ UNCHANGED ret
               ELSE ret' = Some(r.res) /\ UNCHANGED <<tag_files, verb>>
    /\ UNCHANGED <<args, paths, earlier>>

(* line 183: api.paths is exhausted *)
return_tag_files ==
    /\ Running
    /\ verb = 9
    /\ ret' = Some(Ok(tag_files))
    /\ UNCHANGED <<args, driver>>

Next == next_path \/ call_gen \/ return_tag_files

Spec == Init /\ [][Next]_vars

----------------------------------------------------------------------------
(* generate_files as one call on a whole document: api is the sequence of  *)
(* <<path name, ReferenceOr<PathItem>>> of api.paths, a PathItem the       *)
(* Option<Operation> of each verb.  The result tells where the run ended:  *)
(* the path and the gen call (9 when no gen call was under way).           *)

RECURSIVE RunFrom(_, _, _, _, _, _)

(* lines 173-180: the ? after a call of gen *)
AfterGen(api, parameters, i, v, r) ==
    IF ~IsOk(r.res) THEN [res |-> r.res, ts |-> r.ts, at |-> <<i, v>>]
    ELSE RunFrom(api, parameters, i, v + 1, r.tag_files, r.ts)

(* lines 21-183: the loops, from verb v of path i on *)
RunFrom(api, parameters, i, v, files, ts) ==
    IF i > Len(api) THEN [res |-> Ok(files), ts |-> ts, at |-> <<Len(api), 9>>]
    ELSE IF ~IsOk(item(api[i][2]))
    THEN [res |-> item(api[i][2]), ts |-> ts, at |-> <<i, 9>>]
    ELSE IF v > 8 THEN RunFrom(api, parameters, i + 1, 1, files, ts)
    ELSE AfterGen(api, parameters, i, v,
                  gen(files, ts, parameters, api[i][1], Verbs[v],
                      api[i][2].item[Verbs[v]]))

generate_files(api, ts, parameters) == RunFrom(api, parameters, 1, 1, <<>>, ts)

(* the document as the run has read it *)
PathIsReference(i) ==
    i = Len(paths) /\ ret # None /\ IsErr(Unwrap(ret)) /\ verb = 9

PathItemRead(i) ==
    [m \in {Verbs[v] : v \in 1..8} |->
        IF \E k \in 1..Len(visited) : visited[k][1] = paths[i] /\ visited[k][2] = m
        THEN Some(visited[CHOOSE k \in 1..Len(visited) :
                      visited[k][1] = paths[i] /\ visited[k][2] = m][3])
        ELSE None]

Document ==
    [i \in 1..Len(paths) |->
        <<paths[i],
          IF PathIsReference(i) THEN Reference("#/components/pathItems/Shared")
          ELSE Item(PathItemRead(i))>>]

(* a second run of generate_files on the document of the first, from a    *)
(* fresh TypeSpace                                                         *)
run_again ==
    /\ args.fn = "generate_files"
    /\ ret # None
    /\ earlier = <<>>
    /\ \E api \in {Document} :
       \E r \in {generate_files(api, NewTypeSpace, args.parameters)} :
           /\ earlier' = <<[res |-> Unwrap(ret), ts |-> type_space,
                            at |-> <<Len(paths), verb>>]>>
           /\ ret' = Some(r.res)
           /\ type_space' = r.ts
           /\ paths' = SubSeq(paths, 1, r.at[1])
           /\ verb' = r.at[2]
    /\ UNCHANGED <<args, tag_files, visited>>

NextRuns == Next \/ run_again

SpecRuns == Init /\ [][NextRuns]_vars

----------------------------------------------------------------------------
(* Claims about generate_files (checked under Spec)                        *)

Finished == args.fn = "generate_files" /\ ret # None
Outcome == Unwrap(ret)
Succeeded == Finished /\ IsOk(Outcome)
TagCountError ==
    Finished /\ IsErr(Outcome) /\ Outcome.v[1] = "invalid number of tags for op"

(* the line of the documentation block that tells the endpoint *)
EndpointLine(m, p) ==
    "* This function performs a '" \o m \o "' to the '" \o p \o "' endpoint."
LinesOf(text, line) == {i \in 1..Len(text) : text[i] = line}
FunctionsOf(text) == {i \in 1..Len(text) : StartsWith(text[i], "pub async fn ")}

RECURSIVE CountFunctions(_, _)
CountFunctions(files, k) ==
    IF k > Len(files) THEN 0
    ELSE Cardinality(FunctionsOf(files[k][2])) + CountFunctions(files, k + 1)

(* C1: an operation handed to gen with no tag or with two or more tags     *)
(* ends the run with the tag-count error, which names the operation; an    *)
(* operation with exactly one tag never ends it with that error.           *)
C1_TagCardinality ==
    \A i \in 1..Len(visited) :
        LET op == visited[i][3]
        IN  /\ Len(op.tags) # 1 =>
                  /\ i = Len(visited)
                  /\ TagCountError
                  /\ IsSome(op.operation_id) =>
                        Outcome.v[2] = to_snake_case(Unwrap(op.operation_id))
            /\ Len(op.tags) = 1 => ~(i = Len(visited) /\ TagCountError)

(* C2: when generate_files returns the Tag Groups, every operation of the  *)
(* document has contributed one function, found in the group keyed by the  *)
(* snake-cased tag of the operation and in no other group, and the groups  *)
(* hold as many functions as the document has operations.                  *)
C2_OneFunctionPerOperation ==
    Succeeded =>
        /\ \A i \in 1..Len(visited) :
              LET line == EndpointLine(visited[i][2], visited[i][1])
                  key == to_snake_case(visited[i][3].tags[1])
              IN  /\ key \in Keys(Outcome.v)
                  /\ \A k \in 1..Len(Outcome.v) :
                        Cardinality(LinesOf(Outcome.v[k][2], line))
                            = IF Outcome.v[k][1] = key THEN 1 ELSE 0
        /\ CountFunctions(Outcome.v, 1) = Len(visited)

C2_Witness ==
    /\ Succeeded
    /\ Len(visited) = 2
    /\ visited[1][3].tags = <<"Phone">> /\ visited[2][3].tags = <<"users">>
    /\ Keys(Outcome.v) = {"phone", "users"}

(* the canonical order of the verbs *)
CanonicalOrder ==
    <<"GET", "PUT", "POST", "DELETE", "OPTIONS", "HEAD", "PATCH", "TRACE">>
Rank(seq, x) == CHOOSE i \in 1..Len(seq) : seq[i] = x
Before(a, b) ==
    \/ Rank(paths, a[1]) < Rank(paths, b[1])
    \/ a[1] = b[1] /\ Rank(CanonicalOrder, a[2]) < Rank(CanonicalOrder, b[2])

(* C3: operations are handed to gen path by path in the order of the       *)
(* document's paths and, within a path, in the order GET, PUT, POST,       *)
(* DELETE, OPTIONS, HEAD, PATCH, TRACE; the functions of a Tag Group are   *)
(* in the text in that visiting order.                                     *)
C3_VisitingOrder ==
    /\ \A i, j \in 1..Len(visited) :
          i < j => Before(visited[i], visited[j])
    /\ \A k \in 1..Len(tag_files) :
          LET text == tag_files[k][2]
          IN  /\ \A i, j \in 1..Len(visited) :
                    \A a \in LinesOf(text, EndpointLine(visited[i][2], visited[i][1])),
                       b \in LinesOf(text, EndpointLine(visited[j][2], visited[j][1])) :
                        i < j => a < b
              /\ Cardinality(FunctionsOf(text))
                    = Cardinality({i \in 1..Len(visited) :
                          LinesOf(text, EndpointLine(visited[i][2], visited[i][1]))
                              # {}})

C3_Witness ==
    /\ Len(visited) = 2
    /\ visited[1][1] = visited[2][1]
    /\ visited[1][2] = "PUT" /\ visited[2][2] = "DELETE"
    /\ Len(tag_files) = 1
    /\ Cardinality(FunctionsOf(tag_files[1][2])) = 2

(* the gen call of a step that handed an operation to gen, recomputed *)
Handed == visited' # visited
HandedCall ==
    LET e == visited'[Len(visited')]
    IN  gen(tag_files, type_space, args.parameters, e[1], e[2], Some(e[3]))

(* C12: when the gen call of an operation fails, generate_files returns    *)
(* that error, an error value that holds no Tag Group text, and the run is *)
(* over: no later operation is handed to gen and nothing changes any more. *)
C12_AbortOnFirstError ==
    [][/\ Handed /\ ~IsOk(HandedCall.res) =>
            /\ ret' = Some(HandedCall.res)
            /\ IsErr(HandedCall.res)
            /\ tag_files' = tag_files
       /\ Handed /\ IsOk(HandedCall.res) => ret' = None
       /\ ret # None => ret' = ret /\ visited' = visited /\ tag_files' = tag_files
      ]_vars

(* C21: in every step of a run each Tag Group is kept, and its text after   *)
(* the step begins with its text before the step: gen appends the function *)
(* of an operation and rewrites, reorders or removes nothing.              *)
C21_TagGroupsGrow ==
    [][\A k \in 1..Len(tag_files) :
          /\ tag_files[k][1] \in Keys(tag_files')
          /\ StartsWith(Unwrap(BTreeGet(tag_files', tag_files[k][1])),
                        tag_files[k][2])
      ]_vars

C21_Witness ==
    /\ Len(visited) = 2
    /\ visited[1][3].tags = <<"Phone">> /\ visited[2][3].tags = <<"Phone">>
    /\ visited[1][1] # visited[2][1]
    /\ Keys(tag_files) = {"phone"}
    /\ FunctionsOf(tag_files[1][2]) # {}
    /\ LinesOf(tag_files[1][2], EndpointLine(visited[1][2], visited[1][1])) # {}
    /\ LinesOf(tag_files[1][2], EndpointLine(visited[2][2], visited[2][1])) # {}

(* C26: a run of generate_files ends with the Tag Groups or with an error  *)
(* value, and in no other way: it never ends with a panic.                 *)
C26_NoCrash ==
    Finished => (IsOk(Outcome) \/ IsErr(Outcome))

C26_MissingOperationId ==
    /\ Finished /\ IsPanic(Outcome)
    /\ Len(visited) = 2
    /\ visited[1][3].operation_id # None
    /\ visited[2][3].operation_id = None
    /\ Outcome = Panic("unwrap on None: operation_id")
    /\ tag_files # <<>>

----------------------------------------------------------------------------
(* Claims about two runs of generate_files (checked under SpecRuns)        *)

RanTwice == args.fn = "generate_files" /\ earlier # <<>>

----------------------------------------------------------------------------
(* Bounded inputs of one call of gen: an operation of one path, under one  *)
(* verb, with empty Tag Groups and a new registry.                         *)

OperationPath == "/users/{userId}"

OperationNames ==
    {<<"listUsers", "users">>, <<"usersGetUser", "users">>,
     <<"usersList", "user">>, <<"users", "Users">>,
     <<"appsCreateInstallationAccessToken", "apps">>}

ParameterLists ==
    {<<>>,
     <<Item(Parameter("Path", "simple", None,
            ParameterData("userId", Some("The user."), StringSchema)))>>,
     <<Item(Parameter("Path", "simple", None,
            ParameterData("userId", Some("The user."), StringSchema))),
       Item(Query("type", EnumSchema)),
       Reference("#/components/parameters/PageSize")>>}

Content(ct, schema) == << <<ct, MediaType(schema, <<>>)>> >>

RequestBodies ==
    {None,
     Some(Reference("#/components/requestBodies/User")),
     Some(Item(RequestBody(<<>>))),
     Some(Item(RequestBody(Content("application/octet-stream", Some(BinarySchema))))),
     Some(Item(RequestBody(Content("application/json", Some(ObjectSchema))))),
     Some(Item(RequestBody(Content("application/json", None)))),
     Some(Item(RequestBody(Content("text/plain", Some(StringSchema))))),
     Some(Item(RequestBody(Content("application/xml", Some(ObjectSchema))))),
     Some(Item(RequestBody(Content("text/plain", None)))),
     Some(Item(RequestBody(Content("text/plain", Some(StringSchema))
                           \o Content("application/json", Some(ObjectSchema)))))}

OperationArgs(names, m, pars, body) ==
    [fn |-> "gen", parameters |-> ParameterTable, p |-> OperationPath, m |-> m,
     o |-> Operation(Some(names[1]), <<names[2]>>, pars, body, JsonResponses)]

InitOperation ==
    /\ ret = None
    /\ InitDriver
    /\ \E names \in OperationNames, v \in 1..8, pars \in ParameterLists,
          body \in RequestBodies :
            args = OperationArgs(names, Verbs[v], pars, body)

(* lines 173-180: one call of gen, and the `?` on its result *)
call_gen_operation ==
    /\ args.fn = "gen"
    /\ ret = None
    /\ \E r \in {gen(tag_files, type_space, args.parameters, args.p, args.m,
                     Some(args.o))} :
        /\ ret' = Some(r.res)
        /\ tag_files' = r.tag_files
        /\ type_space' = r.ts
    /\ UNCHANGED <<args, paths, verb, visited, earlier>>

NextOperation == call_gen_operation

SpecOperation == InitOperation /\ [][NextOperation]_vars

----------------------------------------------------------------------------
(* Claims about one emitted function (checked under SpecOperation)         *)

OperationDone == args.fn = "gen" /\ ret # None
Emitted == OperationDone /\ IsOk(Unwrap(ret))
Oid == to_snake_case(Unwrap(args.o.operation_id))
Tag == to_snake_case(args.o.tags[1])
Mutating == args.m \in {"POST", "PUT", "PATCH", "DELETE"}
Whitelisted == Oid = "apps_create_installation_access_token"

(* the text of the one Tag Group, and the lines of the function in it *)
Text == tag_files[1][2]
FnIndex == CHOOSE i \in 1..Len(Text) : StartsWith(Text[i], "pub async fn ")
FnLine == Text[FnIndex]
SignatureLines == SubSeq(Text, FnIndex + 1, Len(Text) - 5)
BodyLines ==
    SubSeq(SignatureLines, IF args.o.parameters = <<>> THEN 2 ELSE 3,
           Len(SignatureLines))
CallLine == Text[Len(Text) - 2]
EndsWith(t, suffix) ==
    Len(suffix) <= Len(t) /\ SubSeq(t, Len(t) - Len(suffix) + 1, Len(t)) = suffix

DeclaredBody == Unwrap(args.o.request_body).item
HasBodyItem == IsSome(args.o.request_body) /\ Unwrap(args.o.request_body).kind = "Item"
BinaryBody ==
    /\ Len(DeclaredBody.content) = 1
    /\ DeclaredBody.content[1][2].schema = Some(BinarySchema)
JsonEntries ==
    {k \in 1..Len(DeclaredBody.content) :
        /\ DeclaredBody.content[k][1] = "application/json"
        /\ IsSome(DeclaredBody.content[k][2].schema)}
FirstSchema == DeclaredBody.content[1][2].schema
RequestName == oid_to_object_name(Oid) \o " request"
Registered(name, schema) ==
    {id \in 1..Len(type_space) :
        type_space[id].name = name /\ type_space[id].schema = schema}
SentRaw == CallLine = "self.client." \o to_lowercase(args.m) \o "(&url, Some(body.into())).await"
SentJson ==
    CallLine = "self.client." \o to_lowercase(args.m)
        \o "(&url, Some(reqwest::Body::from(serde_json::to_vec(body).unwrap()))).await"
SentNone == CallLine = "self.client." \o to_lowercase(args.m) \o "(&url, None).await"

BinaryCase ==
    /\ BodyLines = <<"body: B">>
    /\ EndsWith(FnLine, "<B: Into<reqwest::Body>>(")
    /\ (Mutating /\ ~Whitelisted) => SentRaw
JsonCase(k) ==
    /\ BodyLines = <<"body: &crate::types::" \o struct_name(RequestName)>>
    /\ Registered(Some(RequestName), Unwrap(DeclaredBody.content[k][2].schema)) # {}
    /\ ~EndsWith(FnLine, ">(")
    /\ (Mutating /\ ~Whitelisted) => SentJson
OtherCase ==
    /\ \E id \in Registered(None, Unwrap(FirstSchema)) :
            BodyLines = <<"body: " \o (IF render_type(type_space, id).v = "String"
                                       THEN "T" ELSE render_type(type_space, id).v)>>
    /\ EndsWith(FnLine, "<T: Into<reqwest::Body>>(")
    /\ (Mutating /\ ~Whitelisted) => SentRaw

(* C16: the function emitted for an operation with a request body takes a  *)
(* generic byte body `B` sent raw when the body is binary; the named type  *)
(* `<operation id> request` by reference, sent as serialized JSON, when    *)
(* the body declares JSON content with a schema; and for any other content *)
(* type with a schema the anonymous type of that schema (the generic `T`   *)
(* when it renders as `String`) sent raw.                                  *)
C16_BodyClassification ==
    (Emitted /\ HasBodyItem) =>
        IF BinaryBody THEN BinaryCase
        ELSE IF JsonEntries # {} THEN \E k \in JsonEntries : JsonCase(k)
        ELSE IsSome(FirstSchema) => OtherCase

(* the classification as the first content entry alone decides it *)
C16_FirstEntryDecides ==
    (Emitted /\ HasBodyItem) =>
        IF BinaryBody THEN BinaryCase
        ELSE IF 1 \in JsonEntries THEN JsonCase(1)
        ELSE (IsSome(FirstSchema) /\ DeclaredBody.content[1][1] # "application/json")
                => OtherCase

C16_JsonSecond ==
    /\ Emitted /\ args.m = "POST" /\ Oid = "list_users"
    /\ args.o.request_body =
         Some(Item(RequestBody(Content("text/plain", Some(StringSchema))
                               \o Content("application/json", Some(ObjectSchema)))))
    /\ BodyLines = <<"body: T">>
    /\ SentRaw

(* the body strategy of the operation: json, body (raw bytes) or none *)
Strategy == ClassifyBody(Oid, NewTypeSpace, args.o).res.v.body_func

(* C17: the call emitted for a GET operation is `get(&url)` without a      *)
(* body, whether or not the operation declares a request body; the call    *)
(* emitted for a POST, PUT, PATCH or DELETE operation other than the       *)
(* whitelisted one is the client method of its verb with the JSON          *)
(* serialized body, the raw body or None, as the body strategy is json,    *)
(* bytes or none.                                                          *)
C17_VerbAndBody ==
    Emitted =>
        /\ args.m = "GET" => CallLine = "self.client.get(&url).await"
        /\ (Mutating /\ ~Whitelisted) =>
              /\ Strategy = Some("json") => SentJson
              /\ Strategy = Some("body") => SentRaw
              /\ Strategy = None => SentNone

C17_Witness ==
    /\ Emitted /\ args.m = "GET" /\ Oid = "list_users"
    /\ args.o.request_body =
         Some(Item(RequestBody(Content("application/json", Some(ObjectSchema)))))
    /\ BodyLines = <<"body: &crate::types::ListUsersRequest">>
    /\ CallLine = "self.client.get(&url).await"

AuthenticationError == Err(<<"function should be authenticated", Oid>>)
(* the request body is one that gen cannot read (lines 103 and 108) *)
BodyUnreadable ==
    /\ IsSome(args.o.request_body)
    /\ \/ ~HasBodyItem
       \/ DeclaredBody.content = <<>>

(* C18 as the spec states it: an operation on POST, PUT, PATCH or DELETE   *)
(* without a body strategy, other than the whitelisted one, aborts the     *)
(* generation with the missing-authentication error.                       *)
C18_MutatingWithoutBodyAborts ==
    (OperationDone /\ Mutating /\ ~Whitelisted /\ ~BodyUnreadable
        /\ Strategy = None) =>
            Unwrap(ret) = AuthenticationError

(* C18 as the code has it: the missing-authentication error is the outcome *)
(* of an operation on OPTIONS, HEAD or TRACE other than the whitelisted    *)
(* one, whatever its body strategy, and of no other operation; an          *)
(* operation on POST, PUT, PATCH or DELETE without a body strategy is      *)
(* emitted with the body None.                                             *)
C18_OtherVerbAborts ==
    (OperationDone /\ ~BodyUnreadable) =>
        /\ (args.m \in {"OPTIONS", "HEAD", "TRACE"} /\ ~Whitelisted) =>
                Unwrap(ret) = AuthenticationError
        /\ Unwrap(ret) = AuthenticationError =>
                args.m \in {"OPTIONS", "HEAD", "TRACE"} /\ ~Whitelisted
        /\ (Mutating /\ ~Whitelisted /\ Strategy = None) => Emitted /\ SentNone

C18_Witness ==
    /\ OperationDone /\ args.m = "HEAD" /\ Oid = "list_users"
    /\ args.o.request_body = None
    /\ Unwrap(ret) = Err(<<"function should be authenticated", "list_users">>)
    /\ tag_files = <<>>

C18_DeleteWithoutBody ==
    /\ Emitted /\ args.m = "DELETE" /\ Oid = "list_users"
    /\ args.o.request_body = None
    /\ CallLine = "self.client.delete(&url, None).await"

MediaPost == "self.client.post_media(&url, Some(reqwest::Body::from(serde_json::to_vec(body).unwrap())), crate::utils::MediaType::Json, crate::auth::AuthenticationConstraint::JWT).await"

(* C25: gen ends with the authentication error exactly when the verb is    *)
(* OPTIONS, HEAD or TRACE and the operation is not                         *)
(* apps_create_installation_access_token; that operation never ends with   *)
(* it, and on every verb but GET its call is the JWT-constrained JSON      *)
(* media post, marked as recursive, instead of the call of the verb.       *)
C25_AuthenticationError ==
    (OperationDone /\ ~BodyUnreadable) =>
        /\ (Unwrap(ret) = AuthenticationError)
              <=> (args.m \notin {"GET", "POST", "PUT", "PATCH", "DELETE"}
                      /\ ~Whitelisted)
        /\ Whitelisted =>
              /\ Emitted
              /\ CallLine = IF args.m = "GET" THEN "self.client.get(&url).await"
                            ELSE MediaPost
              /\ Text[FnIndex - 1] = "#[async_recursion::async_recursion]"

C25_Witness ==
    /\ Emitted /\ Whitelisted /\ args.m = "TRACE"
    /\ args.o.request_body =
         Some(Item(RequestBody(Content("application/json", Some(ObjectSchema)))))
    /\ FnLine = "pub async fn create_installation_access_token("
    /\ CallLine = MediaPost

(* the name in the line `pub async fn <name>(` or `pub async fn <name><..>(` *)
NameEnd ==
    CHOOSE i \in 14..Len(FnLine) :
        /\ CharAt(FnLine, i) \in {"(", "<"}
        /\ \A j \in 14..(i - 1) : CharAt(FnLine, j) \notin {"(", "<"}
EmittedName == SubSeq(FnLine, 14, NameEnd - 1)
TagPrefix == Tag \o "_"

(* C19: the name of the emitted function is the snake-cased operation id   *)
(* without its leading tag prefix (the snake-cased tag and the underscore  *)
(* after it), and the snake-cased operation id itself when it does not     *)
(* begin with that prefix.                                                 *)
C19_TagPrefixStrippedOnce ==
    Emitted =>
        EmittedName = IF StartsWith(Oid, TagPrefix)
                      THEN SubSeq(Oid, Len(TagPrefix) + 1, Len(Oid))
                      ELSE Oid

(* the name when the operation id begins with the prefix, or with no part  *)
(* of the tag                                                              *)
C19_PrefixOrNothing ==
    (Emitted /\ (StartsWith(Oid, TagPrefix) \/ ~StartsWith(Oid, Tag))) =>
        EmittedName = IF StartsWith(Oid, TagPrefix)
                      THEN SubSeq(Oid, Len(TagPrefix) + 1, Len(Oid))
                      ELSE Oid

C19_TagWithoutUnderscore ==
    /\ Emitted /\ Oid = "users_list" /\ Tag = "user"
    /\ FnLine = "pub async fn s_list("

C19_EmptyName ==
    /\ Emitted /\ Oid = "users" /\ Tag = "users"
    /\ FnLine = "pub async fn ("

(* the signature entry of the i-th declared parameter, declared alone *)
EntryOf(i) ==
    get_fn_params(NewTypeSpace,
                  [args.o EXCEPT !.parameters = <<args.o.parameters[i]>>],
                  args.parameters).res.v.fn_params_str[1]
ParameterLines ==
    IF args.o.parameters = <<>> THEN <<>>
    ELSE <<Join([i \in 1..Len(args.o.parameters) |-> EntryOf(i)], " ")>>
SignatureIs(withBody) ==
    /\ Len(BodyLines) = (IF withBody THEN 1 ELSE 0)
    /\ \A k \in 1..Len(BodyLines) : StartsWith(BodyLines[k], "body: ")
    /\ SubSeq(SignatureLines, 1, Len(SignatureLines) - Len(BodyLines))
            = <<"&self,">> \o ParameterLines

(* C20: the signature of an emitted function is `&self`, then one entry    *)
(* per declared parameter of the operation in the order of declaration,    *)
(* then the parameter `body` if and only if the operation has a request    *)
(* body.                                                                   *)
C20_SignatureShape ==
    Emitted => SignatureIs(IsSome(args.o.request_body))

(* the signature with `body` exactly when the body has a strategy *)
C20_BodyWhenClassified ==
    Emitted => SignatureIs(Strategy # None)

C20_BodyWithoutSchema ==
    /\ Emitted /\ args.m = "POST" /\ Oid = "users_get_user"
    /\ args.o.request_body =
         Some(Item(RequestBody(Content("application/json", None))))
    /\ Len(args.o.parameters) = 3
    /\ SignatureLines =
         <<"&self,", "user_id: &str, type_: crate::types::Type, page_size: i64,">>
    /\ SentNone

----------------------------------------------------------------------------
(* Bounded inputs of two calls of gen that share one registry: two         *)
(* operations of one tag, each with a response and a request body whose    *)
(* type is named or anonymous.                                             *)

PairResponses ==
    {<< <<"200", Item(Response(Content(ct, Some(schema))))>> >> :
        ct \in {"application/json", "application/scim+json", "text/plain"},
        schema \in {ObjectSchema, StringSchema}}

PairBodies ==
    {None} \cup
    {Some(Item(RequestBody(Content(ct, Some(ObjectSchema))))) :
        ct \in {"application/json", "application/xml"}}

(* the operation ids of the two operations, distinct *)
PairIds ==
    {<<"listUsers", "getUser">>, <<"usersList", "list">>, <<"usersGet", "users">>}

PairOperation(id, body, responses) ==
    Operation(Some(id), <<"users">>, <<>>, body, responses)

InitPair ==
    /\ ret = None
    /\ InitDriver
    /\ \E b1 \in PairBodies, b2 \in PairBodies,
          r1 \in PairResponses, r2 \in PairResponses, ids \in PairIds :
            args = [fn |-> "pair", parameters |-> ParameterTable,
                    p |-> "/users", m |-> "POST",
                    ops |-> <<PairOperation(ids[1], b1, r1),
                              PairOperation(ids[2], b2, r2)>>]

(* lines 173-180: the next of the two calls of gen *)
call_gen_pair ==
    /\ args.fn = "pair"
    /\ ret = None
    /\ Len(visited) < Len(args.ops)
    /\ \E o \in {args.ops[Len(visited) + 1]} :
       \E r \in {gen(tag_files, type_space, args.parameters, args.p, args.m,
                     Some(o))} :
        /\ visited' = Append(visited, <<args.p, args.m, o>>)
        /\ type_space' = r.ts
        /\ IF IsOk(r.res)
           THEN tag_files' = r.tag_files /\ UNCHANGED ret
           ELSE ret' = Some(r.res) /\ UNCHANGED tag_files
    /\ UNCHANGED <<args, paths, verb, earlier>>

(* line 183 *)
return_pair ==
    /\ args.fn = "pair"
    /\ ret = None
    /\ Len(visited) = Len(args.ops)
    /\ ret' = Some(Ok(tag_files))
    /\ UNCHANGED <<args, driver>>

NextPair == call_gen_pair \/ return_pair

SpecPair == InitPair /\ [][NextPair]_vars

----------------------------------------------------------------------------
(* Claims about the registry shared by two operations (checked under       *)
(* SpecPair)                                                               *)

PairEmitted == args.fn = "pair" /\ ret # None /\ IsOk(Unwrap(ret))
PairOid(i) == to_snake_case(Unwrap(args.ops[i].operation_id))
ResponseEntry(i) == args.ops[i].responses[1][2].item.content[1]
BodyEntry(i) == Unwrap(args.ops[i].request_body).item.content[1]
(* the resolutions gen makes for the i-th operation: <<name, schema>> *)
ResponseResolution(i) ==
    <<IF ResponseEntry(i)[1] = "text/plain" THEN None
      ELSE Some(oid_to_object_name(PairOid(i)) \o " response"),
      Unwrap(ResponseEntry(i)[2].schema)>>
BodyResolutions(i) ==
    IF args.ops[i].request_body = None THEN {}
    ELSE {<<IF BodyEntry(i)[1] = "application/json"
            THEN Some(oid_to_object_name(PairOid(i)) \o " request") ELSE None,
            Unwrap(BodyEntry(i)[2].schema)>>}
Resolutions(i) == {ResponseResolution(i)} \cup BodyResolutions(i)
NamedResolutions ==
    {<<i, r>> \in (1..2) \X (Resolutions(1) \cup Resolutions(2)) :
        r \in Resolutions(i) /\ r[1] # None}
ResultLines(text) == {k \in 1..Len(text) : StartsWith(text[k], ") -> Result<")}

(* C22: the anonymous resolutions of the two operations whose schemas are  *)
(* structurally identical have one Type Identifier (and the functions      *)
(* render the same type), while every resolution made with a preferred     *)
(* name has an identifier of its own, also when its schema is that of      *)
(* another resolution.                                                     *)
C22_Dedup ==
    PairEmitted =>
        /\ \A i \in 1..2 : \A r \in Resolutions(i) :
              r[1] = None => Cardinality(Registered(None, r[2])) = 1
        /\ (ResponseResolution(1) = ResponseResolution(2)
                /\ ResponseResolution(1)[1] = None) =>
              Cardinality({tag_files[1][2][k] : k \in ResultLines(tag_files[1][2])}) = 1
        /\ \A n \in NamedResolutions :
              Cardinality(Registered(n[2][1], n[2][2])) = 1
        /\ Cardinality({id \in 1..Len(type_space) : type_space[id].name # None})
              = Cardinality(NamedResolutions)

C22_Witness ==
    /\ PairEmitted
    /\ ResponseResolution(1) = <<None, ObjectSchema>>
    /\ ResponseResolution(2) = <<None, ObjectSchema>>
    /\ BodyResolutions(1) = {<<Some("list users request"), ObjectSchema>>}
    /\ BodyResolutions(2) = {<<Some("get user request"), ObjectSchema>>}
    /\ Len(type_space) = 3
    /\ \E id \in 1..3 :
          \A k \in ResultLines(tag_files[1][2]) :
              tag_files[1][2][k] = ") -> Result<crate::types::Type" \o ToString(id) \o "> {"

----------------------------------------------------------------------------
(* The generated functions (src/zoom, src/docusign) at call time: the URL  *)
(* each of them builds from its arguments.  A string argument is a string, *)
(* an integer an integer, a date or an enumeration its Display text.       *)

(* crate::progenitor_support::encode_path: the path separator is escaped *)
encode_path(s) == ReplaceFrom(s, "/", "%2F", 1)

(* a push that does not look at the predicate *)
push_if_Always(query_args, predicate, name, value) ==
    Append(query_args, name \o "=" \o value)

(* `if <predicate> { query_args.push(format!("name={}", value)); }` *)
push_if(query_args, predicate, name, value) ==
    IF predicate THEN Append(query_args, name \o "=" \o value) ELSE query_args

(* `for (i, n) in query_args.iter().enumerate() { if i > 0 {               *)
(* query.push('&'); } query.push_str(n); }`                                *)
query_of(query_args) == Join(query_args, "&")

(* `let url = format!("<path>?{}", query);` *)
with_query(path, query_args) == path \o "?" \o query_of(query_args)

(* Phone::account_call_log *)
account_call_log(page_size, from, to, type_, next_page_token, path, time_type, site_id) ==
    with_query("/phone/call_logs",
        push_if(push_if(push_if(push_if(push_if(push_if(push_if(push_if(<<>>,
            from # "", "from", from),
            next_page_token # "", "next_page_token", next_page_token),
            page_size > 0, "page_size", ToString(page_size)),
            path # "", "path", path),
            site_id # "", "site_id", site_id),
            TRUE, "time_type", time_type),
            to # "", "to", to),
            type_ # "", "type", type_))

(* ImChat::sessions *)
sessions(from, to, page_size, next_page_token) ==
    with_query("/im/chat/sessions",
        push_if(push_if(push_if(push_if(<<>>,
            TRUE, "from", from),
            next_page_token # "", "next_page_token", next_page_token),
            page_size > 0, "page_size", ToString(page_size)),
            TRUE, "to", to))

(* ImChat::sendimmessages *)
sendimmessages(chat_user) ==
    with_query("/im/users/me/chat/messages",
        push_if(<<>>, chat_user # "", "chat_user", chat_user))

(* AccountCustomFields::post *)
post(account_id, apply_to_templates) ==
    with_query("/v2.1/accounts/" \o encode_path(account_id) \o "/custom_fields",
        push_if(<<>>, apply_to_templates # "", "apply_to_templates",
                apply_to_templates))

----------------------------------------------------------------------------
(* Bounded arguments of the generated functions *)

Texts == {"", "me", "a/b"}
Counts == {-1, 0, 30}
Dates == {"2021-01-01"}
TimeTypes == {"startTime", "endTime"}

InitCalls ==
    /\ ret = None
    /\ InitDriver
    /\ \/ \E page_size \in Counts, from \in {"", "2021-01-01"}, to \in {"", "2021-01-31"},
            type_ \in {"", "missed"}, next_page_token \in {"", "t"}, path \in {"", "pstn"},
            time_type \in TimeTypes, site_id \in {"", "s"} :
              args = [fn |-> "account_call_log", page_size |-> page_size,
                      from |-> from, to |-> to, type_ |-> type_,
                      next_page_token |-> next_page_token, path |-> path,
                      time_type |-> time_type, site_id |-> site_id]
       \/ \E from \in Dates, to \in Dates, page_size \in Counts,
            next_page_token \in Texts :
              args = [fn |-> "sessions", from |-> from, to |-> to,
                      page_size |-> page_size, next_page_token |-> next_page_token]
       \/ \E chat_user \in Texts :
              args = [fn |-> "sendimmessages", chat_user |-> chat_user]
       \/ \E account_id \in Texts \ {""}, apply_to_templates \in Texts :
              args = [fn |-> "post", account_id |-> account_id,
                      apply_to_templates |-> apply_to_templates]

call_account_call_log ==
    /\ args.fn = "account_call_log" /\ ret = None
    /\ ret' = Some(account_call_log(args.page_size, args.from, args.to, args.type_,
                        args.next_page_token, args.path, args.time_type,
                        args.site_id))
    /\ UNCHANGED <<args, driver>>

call_sessions ==
    /\ args.fn = "sessions" /\ ret = None
    /\ ret' = Some(sessions(args.from, args.to, args.page_size, args.next_page_token))
    /\ UNCHANGED <<args, driver>>

call_sendimmessages ==
    /\ args.fn = "sendimmessages" /\ ret = None
    /\ ret' = Some(sendimmessages(args.chat_user))
    /\ UNCHANGED <<args, driver>>

call_post ==
    /\ args.fn = "post" /\ ret = None
    /\ ret' = Some(post(args.account_id, args.apply_to_templates))
    /\ UNCHANGED <<args, driver>>

NextCalls == call_account_call_log \/ call_sessions \/ call_sendimmessages \/ call_post

SpecCalls == InitCalls /\ [][NextCalls]_vars

----------------------------------------------------------------------------
(* Claims about the generated functions (checked under SpecCalls)          *)

Called == args.fn \in {"account_call_log", "sessions", "sendimmessages", "post"}
            /\ ret # None
Url == Unwrap(ret)
(* the parameters of the called function that are query parameters, in the *)
(* order of its signature: <<name, kind, value>>                           *)
QueryArguments ==
    IF args.fn = "account_call_log"
    THEN << <<"page_size", "integer", args.page_size>>,
            <<"from", "string", args.from>>, <<"to", "string", args.to>>,
            <<"type", "string", args.type_>>,
            <<"next_page_token", "string", args.next_page_token>>,
            <<"path", "string", args.path>>,
            <<"time_type", "mandatory", args.time_type>>,
            <<"site_id", "string", args.site_id>> >>
    ELSE IF args.fn = "sessions"
    THEN << <<"from", "mandatory", args.from>>, <<"to", "mandatory", args.to>>,
            <<"page_size", "integer", args.page_size>>,
            <<"next_page_token", "string", args.next_page_token>> >>
    ELSE IF args.fn = "sendimmessages"
    THEN << <<"chat_user", "string", args.chat_user>> >>
    ELSE << <<"apply_to_templates", "string", args.apply_to_templates>> >>
RECURSIVE TableOf(_, _)
TableOf(arguments, i) ==
    IF i = 0 THEN <<>>
    ELSE BTreeInsertAt(TableOf(arguments, i - 1), arguments[i][1],
                       <<arguments[i][2], arguments[i][3]>>, 1)
(* the Query Binding Table of the called function, sorted by name *)
CallTable == TableOf(QueryArguments, Len(QueryArguments))
PredicateHolds(e) ==
    \/ e[2][1] = "mandatory"
    \/ e[2][1] = "string" /\ e[2][2] # ""
    \/ e[2][1] = "integer" /\ e[2][2] > 0
PairText(e) ==
    e[1] \o "=" \o (IF e[2][1] = "integer" THEN ToString(e[2][2]) ELSE e[2][2])
IncludedPairs ==
    LET kept == SelectSeq(CallTable, PredicateHolds)
    IN  [i \in 1..Len(kept) |-> PairText(kept[i])]
QuestionMarks == {i \in 1..Len(Url) : CharAt(Url, i) = "?"}
QueryString ==
    IF QuestionMarks = {} THEN ""
    ELSE SubSeq(Url, (CHOOSE i \in QuestionMarks : \A j \in QuestionMarks : i <= j) + 1,
                Len(Url))

BarePath ==
    IF args.fn = "account_call_log" THEN "/phone/call_logs"
    ELSE IF args.fn = "sessions" THEN "/im/chat/sessions"
    ELSE IF args.fn = "sendimmessages" THEN "/im/users/me/chat/messages"
    ELSE "/v2.1/accounts/" \o encode_path(args.account_id) \o "/custom_fields"

(* C29: the URL a generated function builds has the `?` separator only     *)
(* when a query pair follows it; when every pair is left out the URL is    *)
(* the escaped path and nothing more.                                      *)
C29_SeparatorOnlyWithPairs ==
    Called =>
        /\ QuestionMarks # {} => IncludedPairs # <<>>
        /\ IncludedPairs = <<>> => Url = BarePath

(* the URL is the path, the separator and the query string, always *)
C29_SeparatorAlways ==
    Called => Url = BarePath \o "?" \o Join(IncludedPairs, "&")

C29_TrailingSeparator ==
    /\ Called /\ args.fn = "post"
    /\ args.account_id = "a/b" /\ args.apply_to_templates = ""
    /\ Url = "/v2.1/accounts/a%2Fb/custom_fields?"

----------------------------------------------------------------------------
(* Bounded inputs of one call of gen in which each step can fail: the tag  *)
(* list, the request body, a parameter, the response, the path, the verb.  *)

InitSteps ==
    /\ ret = None
    /\ InitDriver
    /\ \E tags \in {<<"users">>, <<>>},
          body \in {None, Some(Reference("#/components/requestBodies/User")),
                    Some(Item(RequestBody(Content("application/xml", Some(ObjectSchema)))))},
          pars \in {<<>>, <<Reference("#/components/parameters/Missing")>>,
                    <<Item(Query("filter", EnumSchema))>>,
                    <<Item(Query("filter", DanglingSchema))>>},
          responses \in {JsonResponses,
                         << <<"200", Reference("#/components/responses/NotFound")>> >>,
                         << <<"200", Item(Response(Content("image/png", None)))>> >>},
          p \in {"/users", "/users/{"},
          m \in {"GET", "POST", "HEAD"} :
            args = [fn |-> "gen", parameters |-> ParameterTable, p |-> p, m |-> m,
                    o |-> Operation(Some("listUsers"), tags, pars, body, responses)]

SpecSteps == InitSteps /\ [][NextOperation]_vars

----------------------------------------------------------------------------
(* Claims about the order of the steps of gen (checked under SpecSteps)    *)

TagStep ==
    IF Len(args.o.tags) # 1
    THEN Err(<<"invalid number of tags for op", Oid, Len(args.o.tags)>>)
    ELSE Ok(<<>>)
DocsStep == get_fn_docs(args.o, args.m, args.p, args.parameters, NewTypeSpace).res
BodyStep == ClassifyBody(Oid, NewTypeSpace, args.o).res
ParametersStep == get_fn_params(NewTypeSpace, args.o, args.parameters).res
ResponseStep == get_response_type(Oid, NewTypeSpace, args.o).res
UrlStep == parse(args.p)
EmitStep ==
    get_fn_inner(Oid, args.m, IF IsOk(BodyStep) THEN BodyStep.v.body_func ELSE None)
FirstFailure(steps) ==
    IF \A i \in 1..Len(steps) : IsOk(steps[i]) THEN Ok(<<>>)
    ELSE steps[CHOOSE i \in 1..Len(steps) :
                  ~IsOk(steps[i]) /\ \A j \in 1..(i - 1) : IsOk(steps[j])]
(* the first identifier the registry gave to a schema *)
FirstId(schema) ==
    CHOOSE id \in 1..Len(type_space) :
        /\ type_space[id].schema = schema
        /\ \A j \in 1..(id - 1) : type_space[j].schema # schema
BodyBeforeParameters ==
    (Emitted /\ HasBodyItem /\ args.o.parameters # <<>>) =>
        FirstId(Unwrap(FirstSchema))
            < FirstId(args.o.parameters[1].item.parameter_data.schema)

(* C24: the outcome of gen is the error of the first step that fails in    *)
(* the order tag, request body, parameters, response type, URL, emission   *)
(* (and success when none fails), and the registry has resolved the type   *)
(* of the request body before the type of any parameter of the operation.  *)
C24_StepOrder ==
    OperationDone =>
        /\ Unwrap(ret) = FirstFailure(<<TagStep, BodyStep, ParametersStep,
                                        ResponseStep, UrlStep, EmitStep>>)
        /\ BodyBeforeParameters

(* the order of the code: the documentation block, which resolves the      *)
(* parameters, comes after the tag and before the request body             *)
C24_DocsBeforeBody ==
    OperationDone =>
        /\ Unwrap(ret) = FirstFailure(<<TagStep, DocsStep, BodyStep, ParametersStep,
                                        ResponseStep, UrlStep, EmitStep>>)
        /\ ~BodyBeforeParameters => (Emitted /\ HasBodyItem)

C24_ParameterErrorFirst ==
    /\ OperationDone
    /\ args.o.request_body = Some(Reference("#/components/requestBodies/User"))
    /\ args.o.parameters = <<Reference("#/components/parameters/Missing")>>
    /\ Unwrap(ret) = Err(<<"could not find parameter with reference",
                           "#/components/parameters/Missing">>)

C24_ParameterTypeFirst ==
    /\ Emitted /\ HasBodyItem
    /\ args.o.parameters = <<Item(Query("filter", EnumSchema))>>
    /\ type_space[1] = [name |-> None, schema |-> EnumSchema]
    /\ type_space[3] = [name |-> None, schema |-> ObjectSchema]
    /\ BodyLines = <<"body: crate::types::Type3">>

----------------------------------------------------------------------------
(* Claims about the names of the functions of one Tag Group (checked under *)
(* SpecPair)                                                               *)

NameOf(line) ==
    SubSeq(line, 14,
           (CHOOSE i \in 14..Len(line) :
                /\ CharAt(line, i) \in {"(", "<"}
                /\ \A j \in 14..(i - 1) : CharAt(line, j) \notin {"(", "<"}) - 1)
GroupNames(text) == [k \in FunctionsOf(text) |-> NameOf(text[k])]

(* C28: the functions of a Tag Group emitted for operations with distinct  *)
(* operation ids have pairwise distinct names, none of them empty.         *)
C28_DistinctFunctionNames ==
    (PairEmitted /\ PairOid(1) # PairOid(2)) =>
        \A g \in 1..Len(tag_files) :
            LET names == GroupNames(tag_files[g][2])
            IN  /\ \A a, b \in DOMAIN names : names[a] = names[b] => a = b
                /\ \A a \in DOMAIN names : names[a] # ""

C28_SameName ==
    /\ PairEmitted
    /\ PairOid(1) = "users_list" /\ PairOid(2) = "list"
    /\ Len(tag_files) = 1 /\ tag_files[1][1] = "users"
    /\ Cardinality(FunctionsOf(tag_files[1][2])) = 2
    /\ \A k \in FunctionsOf(tag_files[1][2]) : NameOf(tag_files[1][2][k]) = "list"

C28_NoName ==
    /\ PairEmitted
    /\ PairOid(2) = "users"
    /\ \E k \in FunctionsOf(tag_files[1][2]) : NameOf(tag_files[1][2][k]) = ""

============================================================================
